---- MODULE Spec2Model ----
(***************************************************************************)
(* LockMiNDS risk-adaptive authentication and session issuance.            *)
(*                                                                         *)
(* The model follows the server sources: the in-memory store (MemStorage), *)
(* the device fingerprint service, the risk engine, the WebAuthn ceremony  *)
(* manager, the OIDC provider, the push/MFA challenge service, the auth    *)
(* routes, the request guard and the rate limiter.  Time is a wall clock   *)
(* counted in minutes.                                                     *)
(* A handler is one action, except where the handler awaits real           *)
(* asynchronous work (signature verification, token signing): there it is  *)
(* cut at that await, because other requests run in the gap.               *)
(***************************************************************************)
EXTENDS Integers, Sequences, FiniteSets, TLC

VARIABLES
    now,                  \* wall clock, minutes
    authSessions,         \* MemStorage.authSessions, in insertion order
    deviceFingerprints,   \* MemStorage.deviceFingerprints, by fingerprint
    authChallenges,       \* MemStorage.authChallenges, by challenge value
    webauthnCredentials,  \* MemStorage.webauthnCredentials, in insertion order
    mfaChallenges,        \* MemStorage.mfaChallenges, by challenge code
    authCodes,            \* OIDCService.authCodes, by code
    attempts,             \* RateLimiter.attempts, by client key
    securityLogs,         \* MemStorage.securityLogs, in insertion order
    users,                \* MemStorage.users, in insertion order
    pushTokens,           \* MemStorage.pushTokens, by token
    vaultEntries,         \* MemStorage.vaultEntries, in insertion order
    req,                  \* requests in flight, by worker
    out,                  \* what the last step answered, or accepted to go on with
    hist                  \* history: how often each single-use grant was given

vars == <<now, authSessions, deviceFingerprints, authChallenges,
          webauthnCredentials, mfaChallenges, authCodes, attempts, securityLogs,
          users, pushTokens, vaultEntries, req, out, hist>>

-----------------------------------------------------------------------------
(* Bounds of the model *)

MaxTime == 2
MaxSessions == 2
MaxLoginCount == 2
MaxLogs == 5
MaxWorkers == 2

(* Durations, in minutes *)

SevenDays == 7 * 24 * 60
SessionTTL == 60

-----------------------------------------------------------------------------
(* Values *)

Null == "null"
Undefined == "undefined"

Users == {"A", "B"}

\* the requests a server has in flight at once, and a worker that has none
Workers == 1..MaxWorkers

Idle == [pc |-> "idle"]

AuthMethods == {"password", "webauthn", "oidc"}

\* An IPv4 address is <<first three octets, last octet>>.
Subnet(ip) == ip[1]

\* What generateFingerprint derives from a request.  The fingerprint is a hash
\* over the user agent and the address, so it determines both.
Devices ==
    { [fingerprint |-> "f1", ipAddress |-> <<1, 1>>, browser |-> "Chrome",
       platform |-> "Windows"],
      [fingerprint |-> "f2", ipAddress |-> <<1, 1>>, browser |-> Undefined,
       platform |-> "Linux"],
      [fingerprint |-> "f3", ipAddress |-> <<1, 2>>, browser |-> "Chrome",
       platform |-> Undefined] }

Fingerprints == {d.fingerprint : d \in Devices}

NoDevice == [userId |-> Null, ipAddress |-> <<0, 0>>, riskScore |-> 0,
             loginCount |-> 0 - 1, isTrusted |-> FALSE, firstSeen |-> 0]

\* new Date().getHours() and getDay() of the clock (minute 0 is a Thursday,
\* 00:00, in the server's time zone)
hourOf(t) == (t \div 60) % 24
dayOfWeekOf(t) == ((t \div (24 * 60)) + 4) % 7

\* Times the server may be started at: Thursday 00:00, Thursday 03:00,
\* Saturday 12:00
StartTimes == {0, 3 * 60, 2 * 24 * 60 + 12 * 60}

NoOut == [op |-> "none"]

\* what JavaScript takes for true in "if (v)" and "v &&", for the values of
\* the model: undefined, null and the empty string are falsy
truthy(v) == v \notin {Undefined, Null, ""}

\* String.prototype.toLowerCase, letter by letter
LowerCaseLetter ==
    [A |-> "a", B |-> "b", C |-> "c", D |-> "d", E |-> "e", F |-> "f", G |-> "g",
     H |-> "h", I |-> "i", J |-> "j", K |-> "k", L |-> "l", M |-> "m", N |-> "n",
     O |-> "o", P |-> "p", Q |-> "q", R |-> "r", S |-> "s", T |-> "t", U |-> "u",
     V |-> "v", W |-> "w", X |-> "x", Y |-> "y", Z |-> "z"]

RECURSIVE toLowerCase(_)
toLowerCase(s) ==
    IF Len(s) = 0 THEN ""
    ELSE LET c == SubSeq(s, 1, 1)
         IN  (IF c \in DOMAIN LowerCaseLetter THEN LowerCaseLetter[c] ELSE c)
                 \o toLowerCase(SubSeq(s, 2, Len(s)))

\* String.prototype.includes: p occurs in s as a substring
includes(s, p) ==
    \E i \in 1..(Len(s) - Len(p) + 1) : SubSeq(s, i, i + Len(p) - 1) = p

Max(a, b) == IF a >= b THEN a ELSE b
Min(a, b) == IF a <= b THEN a ELSE b

-----------------------------------------------------------------------------
(* MemStorage: device fingerprints *)

getDeviceFingerprint(devs, fingerprint) == devs[fingerprint]

\* "if (userId)": an absent or empty userId selects every record of the store
getDeviceFingerprints(devs, userId) ==
    IF truthy(userId)
    THEN {f \in DOMAIN devs : devs[f] # NoDevice /\ devs[f].userId = userId}
    ELSE {f \in DOMAIN devs : devs[f] # NoDevice}

\* riskScore: device.riskScore || 50, loginCount: 0, isTrusted: false,
\* userId: device.userId ?? null
createDeviceFingerprint(devs, device, userId, riskScore) ==
    [devs EXCEPT ![device.fingerprint] =
        [userId |-> IF userId \in {Undefined, Null} THEN Null ELSE userId,
         ipAddress |-> device.ipAddress,
         riskScore |-> IF riskScore = 0 THEN 50 ELSE riskScore,
         loginCount |-> 0,
         isTrusted |-> FALSE,
         firstSeen |-> now]]

\* the spread of the updates, then loginCount + 1
updateDeviceFingerprint(devs, fingerprint, ipAddress, riskScore) ==
    IF devs[fingerprint] = NoDevice THEN devs
    ELSE [devs EXCEPT ![fingerprint] =
            [@ EXCEPT !.ipAddress = ipAddress,
                      !.riskScore = riskScore,
                      !.loginCount = @ + 1]]

-----------------------------------------------------------------------------
(* JWTService *)

\* jwt.sign(payload, JWT_SECRET, {expiresIn: '1h', issuer, audience, jwtid}).
\* The session id in the token is randomBytes(16) in hex: n makes it fresh.
generateAccessToken(n, userId, authMethod, riskScore, fingerprint, t) ==
    [userId |-> userId,
     sessionId |-> <<"hex", n>>,
     authMethod |-> authMethod,
     riskScore |-> riskScore,
     deviceFingerprint |-> fingerprint,
     exp |-> t + SessionTTL,
     signed |-> TRUE]

\* randomBytes(32) in hex
generateRefreshToken(n) == <<"refresh", n>>

-----------------------------------------------------------------------------
(* MemStorage: sessions *)

getAuthSessionsByUser(sessions, userId) ==
    SelectSeq(sessions, LAMBDA s : s.userId = userId /\ s.isActive)

\* id: randomUUID(), riskScore: session.riskScore || 0, isActive: true
createAuthSession(sessions, userId, sessionToken, refreshToken, device, authMethod, riskScore, expiresAt, t) ==
    Append(sessions,
        [id |-> <<"uuid", Len(sessions) + 1>>,
         userId |-> userId,
         sessionToken |-> sessionToken,
         refreshToken |-> refreshToken,
         deviceFingerprint |-> device.fingerprint,
         ipAddress |-> device.ipAddress,
         authMethod |-> authMethod,
         riskScore |-> riskScore,
         isActive |-> TRUE,
         expiresAt |-> expiresAt,
         createdAt |-> t])

\* MemStorage.createSecurityLog: a new entry under a fresh id. message is the
\* fixed part of the text the caller gives.
createSecurityLog(logs, userId, message) ==
    Append(logs, [userId |-> userId, message |-> message])

-----------------------------------------------------------------------------
(* MemStorage: accounts, push tokens, vault entries.  The id of an account, a
   random UUID, is named by the email address for the first account of that
   address and by the address and the account's position for a later one. *)

\* the address of somebody who has no account
NewUser == "C"

Emails == Users \cup {NewUser}

\* what a lookup that finds no account answers (undefined)
NoUser == [id |-> Undefined, email |-> Undefined]

\* MemStorage.getUserByEmail: Array.from(values).find(...), the first account
\* with that address, or undefined
getUserByEmail(accounts, email) ==
    IF \E i \in 1..Len(accounts) : accounts[i].email = email
    THEN accounts[CHOOSE i \in 1..Len(accounts) :
                     /\ accounts[i].email = email
                     /\ \A j \in 1..(i - 1) : accounts[j].email # email]
    ELSE NoUser

\* MemStorage.getUser: the account under that id, or undefined
getUser(accounts, id) ==
    IF \E i \in 1..Len(accounts) : accounts[i].id = id
    THEN accounts[CHOOSE i \in 1..Len(accounts) : accounts[i].id = id]
    ELSE NoUser

\* MemStorage.createUser: a new account under a fresh id, whatever the
\* accounts the map holds
createUser(accounts, email) ==
    Append(accounts,
           [id |-> IF getUserByEmail(accounts, email) = NoUser THEN email
                   ELSE email \o "#" \o ToString(Len(accounts) + 1),
            email |-> email])

\* POST /register of A and then of B, on the stores the constructor leaves:
\* the two accounts, and the entry the handler appends for each
RegisteredUsers == createUser(createUser(<<>>, "A"), "B")

RegisteredLogs ==
    createSecurityLog(
        createSecurityLog(<<>>, "A", "User account created successfully"),
        "B", "User account created successfully")

PushTokenNames == {"t1", "t2"}

\* a token the map does not hold
NoPushToken == [userId |-> Null, platform |-> Null, isActive |-> FALSE]

NoPushTokens == [t \in PushTokenNames |-> NoPushToken]

\* MemStorage.getPushTokens: the active tokens of the principal
getPushTokens(tokens, userId) ==
    {t \in DOMAIN tokens : tokens[t].userId = userId /\ tokens[t].isActive}

\* MemStorage.createPushToken: the map is keyed by the token, so a token that
\* is registered again is overwritten
createPushToken(tokens, userId, token, platform) ==
    [tokens EXCEPT ![token] =
        [userId |-> userId, platform |-> platform, isActive |-> TRUE]]

\* MemStorage.deactivatePushToken
deactivatePushToken(tokens, token) ==
    IF tokens[token] = NoPushToken THEN tokens
    ELSE [tokens EXCEPT ![token].isActive = FALSE]

MaxVaultEntries == 2

\* an id the map does not hold, and what is left of a deleted entry
NoVaultEntry == [id |-> 0, userId |-> Null, name |-> Null]

\* MemStorage.getVaultEntry
getVaultEntry(entries, id) ==
    IF id \in 1..Len(entries) THEN entries[id] ELSE NoVaultEntry

\* MemStorage.createVaultEntry: a new entry under a fresh id
createVaultEntry(entries, userId, name) ==
    Append(entries, [id |-> Len(entries) + 1, userId |-> userId, name |-> name])

\* MemStorage.updateVaultEntry: the spread of the fields given, the owner kept
updateVaultEntry(entries, id, name) ==
    IF getVaultEntry(entries, id) = NoVaultEntry THEN entries
    ELSE [entries EXCEPT ![id].name = name]

\* MemStorage.deleteVaultEntry
deleteVaultEntry(entries, id) ==
    IF getVaultEntry(entries, id) = NoVaultEntry THEN entries
    ELSE [entries EXCEPT ![id] = NoVaultEntry]

deactivateAllUserSessions(sessions, userId) ==
    [i \in 1..Len(sessions) |->
        IF sessions[i].userId = userId /\ sessions[i].isActive
        THEN [sessions[i] EXCEPT !.isActive = FALSE]
        ELSE sessions[i]]

-----------------------------------------------------------------------------
(* DeviceFingerprintService *)

\* ['unknown', '', null].includes(browser?.toLowerCase()): for a browser that
\* is null or undefined the optional chain gives undefined, which the list does
\* not hold
suspiciousBrowser(browser) ==
    /\ browser \notin {Null, Undefined}
    /\ toLowerCase(browser) \in {"unknown", ""}

trustedPlatforms == {"Windows", "Mac OS", "iOS", "Android"}

\* trustedPlatforms.some(p => platform.includes(p)), for a platform that is a
\* string
trustedPlatform(platform) == \E p \in trustedPlatforms : includes(platform, p)

analyzeRisk(devs, deviceData, userId) ==
    LET existingDevice == getDeviceFingerprint(devs, deviceData.fingerprint)
        known ==
            IF existingDevice # NoDevice
            THEN IF existingDevice.userId = userId
                 THEN LET r == Max(5, existingDevice.riskScore - 5)
                      IN  IF existingDevice.loginCount > 10
                          THEN Max(0, r - 10) ELSE r
                 ELSE IF truthy(existingDevice.userId)
                         /\ existingDevice.userId # userId
                      THEN 80
                      ELSE 30
            ELSE 60
        sameIPDevices ==
            {f \in getDeviceFingerprints(devs, userId) :
                devs[f].ipAddress = deviceData.ipAddress}
        byIp == IF truthy(userId) /\ sameIPDevices # {}
                THEN Max(10, known - 15) ELSE known
        byBrowser == IF suspiciousBrowser(deviceData.browser)
                     THEN byIp + 20 ELSE byIp
        byPlatform == IF truthy(deviceData.platform)
                         /\ ~trustedPlatform(deviceData.platform)
                      THEN byBrowser + 15 ELSE byBrowser
    IN  Min(100, Max(0, byPlatform))

\* a service that hands the store the principal of the login among the updates
recordDeviceLogin_rebinds(devs, deviceData, userId) ==
    IF getDeviceFingerprint(devs, deviceData.fingerprint) # NoDevice
    THEN [updateDeviceFingerprint(devs, deviceData.fingerprint,
              deviceData.ipAddress, devs[deviceData.fingerprint].riskScore)
            EXCEPT ![deviceData.fingerprint].userId = userId]
    ELSE createDeviceFingerprint(devs, deviceData,
             IF truthy(userId) THEN userId ELSE Null,
             analyzeRisk(devs, deviceData, userId))

recordDeviceLogin(devs, deviceData, userId) ==
    IF getDeviceFingerprint(devs, deviceData.fingerprint) # NoDevice
    THEN updateDeviceFingerprint(devs, deviceData.fingerprint,
             deviceData.ipAddress,
             devs[deviceData.fingerprint].riskScore)
    ELSE createDeviceFingerprint(devs, deviceData,
             IF truthy(userId) THEN userId ELSE Null,
             analyzeRisk(devs, deviceData, userId))

\* trustDevice: updateDeviceFingerprint stores a copy of the record with the
\* risk score min(riskScore, 10); "device.isTrusted = true" then writes to the
\* object read before the update, which the map no longer holds
trustDevice(devs, userId, fingerprint) ==
    IF devs[fingerprint] = NoDevice \/ devs[fingerprint].userId # userId
    THEN devs
    ELSE updateDeviceFingerprint(devs, fingerprint,
             devs[fingerprint].ipAddress,
             Min(devs[fingerprint].riskScore, 10))

-----------------------------------------------------------------------------
(* RiskEngine *)

CountMethod(seq, m) ==
    Cardinality({i \in 1..Len(seq) : seq[i].authMethod = m})

FirstIndex(seq, m) ==
    CHOOSE i \in 1..Len(seq) :
        seq[i].authMethod = m /\ \A j \in 1..(i - 1) : seq[j].authMethod # m

\* Object.keys(methodCounts).sort((a, b) => counts[b] - counts[a])[0]: the
\* most frequent method, the first one met among equals
mostCommonMethod(recent) ==
    IF Len(recent) = 0 THEN Undefined
    ELSE LET ms == {recent[i].authMethod : i \in 1..Len(recent)}
         IN  CHOOSE m \in ms : \A m2 \in ms :
                \/ CountMethod(recent, m) > CountMethod(recent, m2)
                \/ /\ CountMethod(recent, m) = CountMethod(recent, m2)
                   /\ FirstIndex(recent, m) <= FirstIndex(recent, m2)

analyzeBehaviorRisk(sessions, t, userId) ==
    LET userSessions == getAuthSessionsByUser(sessions, userId)
        recentSessions ==
            SelectSeq(userSessions, LAMBDA s : s.createdAt > t - SevenDays)
        mostCommon == mostCommonMethod(recentSessions)
        firstFive == SubSeq(recentSessions, 1, Min(5, Len(recentSessions)))
    IN  IF Len(userSessions) = 0 THEN 50
        ELSE IF Len(recentSessions) > 20 * 7 THEN 75
        ELSE IF \A i \in 1..Len(firstFive) :
                    firstFive[i].authMethod # mostCommon
             THEN 60
             ELSE 20

analyzeTimeRisk(hour, dayOfWeek) ==
    IF hour >= 2 /\ hour <= 6 THEN 60
    ELSE IF dayOfWeek = 0 \/ dayOfWeek = 6 THEN 30
    ELSE 10

analyzeLocationRisk(devs, userId, currentIp) ==
    LET knownIPs == {devs[f].ipAddress : f \in getDeviceFingerprints(devs, userId)}
    IN  IF currentIp \in knownIPs THEN 10
        ELSE IF \E ip \in knownIPs : Subnet(ip) = Subnet(currentIp) THEN 30
        ELSE 70

\* time weight 1.0 in place of 0.1
weightedRisk_timeWeightOne(device, behavior, time, location) ==
    (4 * device + 3 * behavior + 10 * time + 2 * location + 5) \div 10

\* Math.round(device * 0.4 + behavior * 0.3 + time * 0.1 + location * 0.2)
weightedRisk(device, behavior, time, location) ==
    (4 * device + 3 * behavior + time + 2 * location + 5) \div 10

\* the 20-point discount given to "webauthn" alone
recommend_webauthnOnlyDiscount(overallRisk, authMethod) ==
    LET first ==
            IF overallRisk >= 90 THEN "block"
            ELSE IF overallRisk >= 60 \/ authMethod = "password" THEN "mfa_required"
            ELSE IF overallRisk >= 40 /\ authMethod # "webauthn" THEN "mfa_required"
            ELSE "allow"
    IN  IF authMethod = "webauthn" /\ Max(0, overallRisk - 20) < 40
        THEN "allow"
        ELSE first

recommend(overallRisk, authMethod) ==
    LET first ==
            IF overallRisk >= 90 THEN "block"
            ELSE IF overallRisk >= 60 \/ authMethod = "password" THEN "mfa_required"
            ELSE IF overallRisk >= 40 /\ authMethod # "webauthn" THEN "mfa_required"
            ELSE "allow"
    IN  IF authMethod \in {"webauthn", "biometric"}
           /\ Max(0, overallRisk - 20) < 40
        THEN "allow"
        ELSE first

assessLoginRisk(devs, sessions, t, userId, deviceData, authMethod) ==
    LET deviceRisk == analyzeRisk(devs, deviceData, userId)
        behaviorRisk == analyzeBehaviorRisk(sessions, t, userId)
        timeRisk == analyzeTimeRisk(hourOf(t), dayOfWeekOf(t))
        locationRisk == analyzeLocationRisk(devs, userId, deviceData.ipAddress)
        overallRisk == weightedRisk(deviceRisk, behaviorRisk, timeRisk, locationRisk)
        recommendation == recommend(overallRisk, authMethod)
    IN  [overallRisk |-> overallRisk,
         deviceRisk |-> deviceRisk,
         behaviorRisk |-> behaviorRisk,
         timeRisk |-> timeRisk,
         locationRisk |-> locationRisk,
         recommendation |-> recommendation,
         requiresAdditionalAuth |-> recommendation # "allow"]

-----------------------------------------------------------------------------
(* Initial stores: what the constructors leave *)

EmptyStores ==
    /\ now = 0
    /\ authSessions = <<>>
    /\ deviceFingerprints = [f \in Fingerprints |-> NoDevice]
    /\ authChallenges = <<>>
    /\ webauthnCredentials = <<>>
    /\ mfaChallenges = <<>>
    /\ attempts = <<>>
    /\ securityLogs = <<>>
    /\ users = <<>>
    /\ pushTokens = NoPushTokens
    /\ vaultEntries = <<>>
    /\ authCodes = <<>>
    /\ req = [w \in Workers |-> Idle]
    /\ out = NoOut
    /\ hist = <<>>

Advance(d) ==
    /\ now' = now + d
    /\ out' = NoOut
    /\ UNCHANGED <<authSessions, deviceFingerprints, authChallenges,
                   webauthnCredentials, mfaChallenges, attempts, securityLogs, authCodes, req, hist,
                   users, pushTokens, vaultEntries>>

-----------------------------------------------------------------------------
(* routes/auth: POST /login, cut at its one asynchronous wait, bcrypt.compare *)

\* an answer that tells the client that the email is not known
loginUserNotFound_telling == [status |-> 404, error |-> "User not found", code |-> "USER_NOT_FOUND"]

\* the answer when getUserByEmail finds no principal
loginUserNotFound == [status |-> 401, error |-> "Invalid credentials", code |-> "INVALID_CREDENTIALS"]

\* the answer when bcrypt.compare says the password is wrong
loginInvalidPassword == [status |-> 401, error |-> "Invalid credentials", code |-> "INVALID_CREDENTIALS"]

\* what bcrypt.compare does: it answers true or false, or rejects (a password
\* that is not a string)
CompareAnswers == {"valid", "invalid", "throw"}

\* POST /login up to the call of bcrypt.compare.  email is the address of the
\* body or undefined, hasPassword whether the body has a password.  cause, in
\* the failed answers, notes which return gave it.
LoginStart(w, email, hasPassword, d) ==
    LET user == getUserByEmail(users, email)
    IN  /\ req[w] = Idle
        /\ Len(authSessions) < MaxSessions
        /\ UNCHANGED <<now, authSessions, deviceFingerprints, authChallenges,
                       webauthnCredentials, mfaChallenges, attempts, securityLogs,
                       authCodes, hist, users, pushTokens, vaultEntries>>
        /\ IF ~truthy(email) \/ ~hasPassword
           THEN /\ out' = [op |-> "login", cause |-> "fields", status |-> 400,
                           error |-> "Email and password are required",
                           code |-> "MISSING_FIELDS"]
                /\ UNCHANGED req
           ELSE IF user = NoUser
           THEN /\ out' = [op |-> "login", cause |-> "email",
                           status |-> loginUserNotFound.status,
                           error |-> loginUserNotFound.error,
                           code |-> loginUserNotFound.code]
                /\ UNCHANGED req
           ELSE /\ req' = [req EXCEPT ![w] = [pc |-> "compare",
                                              userId |-> user.id,
                                              device |-> d]]
                /\ out' = NoOut

\* ... and from the answer of bcrypt.compare on.  The handler does not call
\* the risk engine: its assessment is the literal
\* {overallRisk: 10, recommendation: 'allow', requiresAdditionalAuth: false}.
\* The tokens and the session are stamped with the clock of this step.
LoginFinish(w, isValidPassword) ==
    LET r == req[w]
        n == Len(authSessions) + 1
        accessToken == generateAccessToken(n, r.userId, "password", 10,
                                           r.device.fingerprint, now)
        refreshToken == generateRefreshToken(n)
    IN  /\ req[w].pc = "compare"
        /\ req' = [req EXCEPT ![w] = Idle]
        /\ UNCHANGED <<now, authChallenges, webauthnCredentials, mfaChallenges,
                       attempts, authCodes, hist, users, pushTokens, vaultEntries>>
        /\ IF isValidPassword = "throw"
           THEN /\ out' = [op |-> "login", cause |-> "compare", status |-> 500,
                           error |-> "Login failed", code |-> "LOGIN_FAILED"]
                /\ UNCHANGED <<authSessions, deviceFingerprints, securityLogs>>
           ELSE IF isValidPassword = "invalid"
           THEN /\ Len(securityLogs) < MaxLogs
                /\ securityLogs' = createSecurityLog(securityLogs, r.userId,
                                       "Failed login attempt - invalid password")
                /\ out' = [op |-> "login", cause |-> "password",
                           status |-> loginInvalidPassword.status,
                           error |-> loginInvalidPassword.error,
                           code |-> loginInvalidPassword.code]
                /\ UNCHANGED <<authSessions, deviceFingerprints>>
           ELSE /\ Len(authSessions) < MaxSessions
                /\ deviceFingerprints' =
                       recordDeviceLogin(deviceFingerprints, r.device, r.userId)
                /\ authSessions' = createAuthSession(authSessions, r.userId,
                                        accessToken, refreshToken, r.device,
                                        "password", 10, now + SessionTTL, now)
                /\ securityLogs' = createSecurityLog(securityLogs, r.userId,
                                       "Password login successful")
                /\ out' = [op |-> "login", status |-> 200, userId |-> r.userId,
                           accessToken |-> accessToken,
                           refreshToken |-> refreshToken,
                           requiresMfa |-> FALSE, riskScore |-> 10]

-----------------------------------------------------------------------------
(* routes/auth: POST /register, cut at its one asynchronous wait, bcrypt.hash,
   and the password reset *)

\* the least length of a password
MinPasswordLength == 8

\* The lengths of the passwords of the requests: none, one short of the
\* least length, the least length
PasswordLengths == {0, MinPasswordLength - 1, MinPasswordLength}

\* the accounts the model lets the store hold
MaxUsers == 2

\* POST /register up to the call of bcrypt.hash.  email is the address of the
\* body or undefined, wellFormed whether it matches /\S+@\S+\.\S+/,
\* passwordLength the length of the password (0 when the body has none).
RegisterStart(w, email, wellFormed, passwordLength) ==
    /\ req[w] = Idle
    /\ UNCHANGED <<now, authSessions, deviceFingerprints, authChallenges,
                   webauthnCredentials, mfaChallenges, authCodes, attempts,
                   securityLogs, users, pushTokens, vaultEntries, hist>>
    /\ IF ~truthy(email) \/ passwordLength = 0
       THEN /\ out' = [op |-> "account-register", status |-> 400,
                       code |-> "MISSING_FIELDS", email |-> email]
            /\ UNCHANGED req
       ELSE IF ~wellFormed
       THEN /\ out' = [op |-> "account-register", status |-> 400,
                       code |-> "INVALID_EMAIL", email |-> email]
            /\ UNCHANGED req
       ELSE IF passwordLength < MinPasswordLength
       THEN /\ out' = [op |-> "account-register", status |-> 400,
                       code |-> "WEAK_PASSWORD", email |-> email]
            /\ UNCHANGED req
       ELSE IF getUserByEmail(users, email) # NoUser
       THEN /\ out' = [op |-> "account-register", status |-> 409,
                       code |-> "USER_EXISTS", email |-> email]
            /\ UNCHANGED req
       ELSE /\ Len(users)
                 + Cardinality({v \in Workers : req[v].pc = "hash"}) < MaxUsers
            /\ req' = [req EXCEPT ![w] = [pc |-> "hash", email |-> email]]
            /\ out' = NoOut

\* ... and from the answer of bcrypt.hash on: the account is created, whatever
\* the store holds by now, and the entry appended.  hashed is false when
\* bcrypt.hash rejects (a password that is not a string): the catch answers.
RegisterFinish(w, hashed) ==
    LET r == req[w]
        user == createUser(users, r.email)[Len(users) + 1]
    IN  /\ req[w].pc = "hash"
        /\ req' = [req EXCEPT ![w] = Idle]
        /\ UNCHANGED <<now, authSessions, deviceFingerprints, authChallenges,
                       webauthnCredentials, mfaChallenges, authCodes, attempts,
                       pushTokens, vaultEntries, hist>>
        /\ IF ~hashed
           THEN /\ out' = [op |-> "account-register", status |-> 400,
                           code |-> "REGISTRATION_FAILED", email |-> r.email]
                /\ UNCHANGED <<users, securityLogs>>
           ELSE /\ Len(securityLogs) < MaxLogs
                /\ users' = createUser(users, r.email)
                /\ securityLogs' = createSecurityLog(securityLogs, user.id,
                                       "User account created successfully")
                /\ out' = [op |-> "account-register", status |-> 201,
                           code |-> Null, email |-> r.email, userId |-> user.id]

\* POST /password-reset/request: the same answer for an address with and
\* without an account; the reset token is only printed
PasswordResetRequest(email, wellFormed) ==
    LET user == getUserByEmail(users, email)
    IN  /\ UNCHANGED <<now, authSessions, deviceFingerprints, authChallenges,
                       webauthnCredentials, mfaChallenges, authCodes, attempts,
                       users, pushTokens, vaultEntries, req, hist>>
        /\ IF ~truthy(email)
           THEN /\ out' = [op |-> "password-reset-request", status |-> 400,
                           code |-> "EMAIL_REQUIRED", email |-> email]
                /\ UNCHANGED securityLogs
           ELSE IF ~wellFormed
           THEN /\ out' = [op |-> "password-reset-request", status |-> 400,
                           code |-> "INVALID_EMAIL", email |-> email]
                /\ UNCHANGED securityLogs
           ELSE IF user = NoUser
           THEN /\ out' = [op |-> "password-reset-request", status |-> 200,
                           code |-> Null, email |-> email]
                /\ UNCHANGED securityLogs
           ELSE /\ Len(securityLogs) < MaxLogs
                /\ securityLogs' = createSecurityLog(securityLogs, user.id,
                                       "Password reset requested")
                /\ out' = [op |-> "password-reset-request", status |-> 200,
                           code |-> Null, email |-> email]

\* POST /password-reset/complete: the token is not looked at and no password
\* is changed
PasswordResetComplete(hasToken, passwordLength) ==
    /\ out' = [op |-> "password-reset-complete",
               status |-> IF ~hasToken \/ passwordLength = 0 THEN 400
                          ELSE IF passwordLength < MinPasswordLength THEN 400
                          ELSE 200,
               code |-> IF ~hasToken \/ passwordLength = 0 THEN "MISSING_FIELDS"
                        ELSE IF passwordLength < MinPasswordLength
                        THEN "WEAK_PASSWORD"
                        ELSE Null]
    /\ UNCHANGED <<now, authSessions, deviceFingerprints, authChallenges,
                   webauthnCredentials, mfaChallenges, authCodes, attempts,
                   securityLogs, users, pushTokens, vaultEntries, req, hist>>

-----------------------------------------------------------------------------
(* routes/auth: POST /webauthn/authenticate/complete, once the assertion has
   verified for the principal userId *)

\* a route that creates the session whatever the assessment recommends
blocksLogin_never(riskAssessment) == FALSE

\* the route's test of the assessment:
\* if (riskAssessment.recommendation === 'block')
blocksLogin(riskAssessment) == riskAssessment.recommendation = "block"

\* the route from the assessment on; devs is the store recordDeviceLogin left
webauthnGrantOn(riskAssessment, devs, userId, d, credentialId) ==
    LET n == Len(authSessions) + 1
        accessToken == generateAccessToken(n, userId, "webauthn",
                           riskAssessment.overallRisk, d.fingerprint, now)
        refreshToken == generateRefreshToken(n)
    IN  /\ deviceFingerprints' = devs
        /\ IF blocksLogin(riskAssessment)
           THEN /\ out' = [op |-> "webauthn", status |-> 403, userId |-> userId,
                           code |-> "LOGIN_BLOCKED",
                           recommendation |-> riskAssessment.recommendation,
                           riskScore |-> riskAssessment.overallRisk,
                           deviceRisk |-> riskAssessment.deviceRisk]
                /\ securityLogs' = createSecurityLog(securityLogs, userId,
                                       "WebAuthn login blocked due to high risk")
                /\ UNCHANGED authSessions
           ELSE /\ authSessions' = createAuthSession(authSessions, userId,
                                        accessToken, refreshToken, d, "webauthn",
                                        riskAssessment.overallRisk,
                                        now + SessionTTL, now)
                /\ securityLogs' = createSecurityLog(securityLogs, userId,
                                       "WebAuthn authentication successful")
                /\ out' = [op |-> "webauthn", status |-> 200, userId |-> userId,
                           credentialId |-> credentialId,
                           accessToken |-> accessToken,
                           refreshToken |-> refreshToken,
                           recommendation |-> riskAssessment.recommendation,
                           requiresMfa |-> riskAssessment.requiresAdditionalAuth,
                           riskScore |-> riskAssessment.overallRisk,
                           deviceRisk |-> riskAssessment.deviceRisk]

\* the device is recorded, the login assessed on the store that leaves, and
\* the route goes on with the engine's assessment
webauthnGrant(userId, d, credentialId) ==
    LET devs == recordDeviceLogin(deviceFingerprints, d, userId)
        riskAssessment == assessLoginRisk(devs, authSessions, now, userId, d,
                                          "webauthn")
    IN  webauthnGrantOn(riskAssessment, devs, userId, d, credentialId)

-----------------------------------------------------------------------------
(* Sessions: the Request Guard, refresh and logout *)

\* no Authorization header, no refresh token in the body
NoToken == [userId |-> Null, sessionId |-> <<"hex", 0>>, authMethod |-> Null,
            riskScore |-> 0, deviceFingerprint |-> Null, exp |-> 0,
            signed |-> FALSE]
NoRefreshToken == <<"none", 0>>

NoSession == [id |-> <<"uuid", 0>>, userId |-> Null, isActive |-> FALSE]

\* JWTService.verifyAccessToken: jwt.verify accepts a token signed with the
\* secret and not yet expired
verifyAccessToken(token, t) == token.signed /\ t < token.exp

hasSessionId(sessions, sessionId) ==
    \E i \in 1..Len(sessions) :
        sessions[i].id = sessionId /\ sessions[i].isActive

sessionIndex(sessions, sessionId) ==
    CHOOSE i \in 1..Len(sessions) :
        /\ sessions[i].id = sessionId /\ sessions[i].isActive
        /\ \A j \in 1..(i - 1) :
              ~(sessions[j].id = sessionId /\ sessions[j].isActive)

\* MemStorage.getAuthSessionBySessionId: the first active session whose id
\* (the UUID createAuthSession gave it) is sessionId
getAuthSessionBySessionId(sessions, sessionId) ==
    IF hasSessionId(sessions, sessionId)
    THEN sessions[sessionIndex(sessions, sessionId)]
    ELSE NoSession

\* a store that ends every session of the principal whose session is named
deactivateAuthSessionBySessionId_allOfUser(sessions, sessionId) ==
    IF hasSessionId(sessions, sessionId)
    THEN deactivateAllUserSessions(sessions,
             sessions[sessionIndex(sessions, sessionId)].userId)
    ELSE sessions

deactivateAuthSessionBySessionId(sessions, sessionId) ==
    IF hasSessionId(sessions, sessionId)
    THEN [sessions EXCEPT ![sessionIndex(sessions, sessionId)].isActive = FALSE]
    ELSE sessions

\* middleware/auth authenticateToken: "next" when the request is let through,
\* else the code of its 401 answer
authenticateToken_noSessionCheck(sessions, token, t) ==
    IF token = NoToken THEN "TOKEN_MISSING"
    ELSE IF ~verifyAccessToken(token, t) THEN "TOKEN_INVALID"
    ELSE "next"

authenticateToken(sessions, token, t) ==
    LET session == getAuthSessionBySessionId(sessions, token.sessionId)
    IN  IF token = NoToken THEN "TOKEN_MISSING"
        ELSE IF ~verifyAccessToken(token, t) THEN "TOKEN_INVALID"
        ELSE IF \/ session = NoSession
                \/ ~session.isActive
                \/ session.expiresAt < t
        THEN "SESSION_EXPIRED"
        ELSE IF session.userId # token.userId THEN "SESSION_MISMATCH"
        ELSE "next"

\* the bearer tokens a client can present: none (i = 0), the access token of
\* the i-th session issued, or that token with a signature that does not verify
BearerToken(i, signed) ==
    IF i = 0 THEN NoToken
    ELSE [authSessions[i].sessionToken EXCEPT !.signed = signed]

\* the refresh tokens a client can present: none, or a 32-byte string, issued
\* (n >= 1) or not
RefreshTokens ==
    {NoRefreshToken} \cup {generateRefreshToken(n) : n \in 0..MaxSessions}

\* a session that refresh ought to accept holds this refresh token
refreshable(sessions, refreshToken, t) ==
    \E i \in 1..Len(sessions) :
        /\ sessions[i].refreshToken = refreshToken
        /\ sessions[i].isActive
        /\ ~(sessions[i].expiresAt < t)

-----------------------------------------------------------------------------
(* The risk engine on the histories the login handlers build *)

\* routes/auth: POST /logout-all. The guard, then the handler deactivates
\* every active session of the token's principal.
LogoutAll(i, signed) ==
    LET token == BearerToken(i, signed)
        verdict == authenticateToken(authSessions, token, now)
    IN  /\ i <= Len(authSessions)
        /\ authSessions' =
               IF verdict = "next"
               THEN deactivateAllUserSessions(authSessions, token.userId)
               ELSE authSessions
        /\ securityLogs' =
               IF verdict = "next"
               THEN createSecurityLog(securityLogs, token.userId,
                                      "All user sessions terminated")
               ELSE securityLogs
        /\ out' = [op |-> "logout-all", token |-> token,
                   status |-> IF verdict = "next" THEN 200 ELSE 401,
                   code |-> verdict,
                   handlerRan |-> verdict = "next"]
        /\ UNCHANGED <<now, deviceFingerprints, authChallenges, webauthnCredentials,
                       mfaChallenges, attempts, authCodes, req, hist,
                   users, pushTokens, vaultEntries>>

\* routes/auth: POST /devices/:fingerprint/trust. The guard, then the handler
\* answers 404 unless the fingerprint's record is the principal's, and else
\* calls DeviceFingerprintService.trustDevice.
TrustDevice(i, signed, f) ==
    LET token == BearerToken(i, signed)
        verdict == authenticateToken(authSessions, token, now)
        u == token.userId
    IN  /\ i <= Len(authSessions)
        /\ deviceFingerprints[f].loginCount < MaxLoginCount
        /\ deviceFingerprints' =
               IF verdict = "next"
               THEN trustDevice(deviceFingerprints, u, f)
               ELSE deviceFingerprints
        /\ securityLogs' =
               IF /\ verdict = "next"
                  /\ deviceFingerprints[f] # NoDevice
                  /\ deviceFingerprints[f].userId = u
               THEN createSecurityLog(securityLogs, u, "Device marked as trusted")
               ELSE securityLogs
        /\ out' = [op |-> "trust", token |-> token, fingerprint |-> f,
                   status |-> IF verdict # "next" THEN 401
                              ELSE IF deviceFingerprints[f] # NoDevice
                                      /\ deviceFingerprints[f].userId = u
                              THEN 200 ELSE 404,
                   code |-> verdict,
                   handlerRan |-> verdict = "next"]
        /\ UNCHANGED <<now, authSessions, authChallenges, webauthnCredentials,
                       mfaChallenges, attempts, authCodes, req, hist,
                   users, pushTokens, vaultEntries>>

\* RiskEngine.assessLoginRisk(userId, deviceData, authMethod), as a login
\* handler calls it; owner is the principal the fingerprint's record is bound to
Assess(u, d, authMethod) ==
    /\ out' = [op |-> "assess", userId |-> u, fingerprint |-> d.fingerprint,
               authMethod |-> authMethod,
               owner |-> deviceFingerprints[d.fingerprint].userId,
               result |-> assessLoginRisk(deviceFingerprints, authSessions, now,
                                          u, d, authMethod)]
    /\ UNCHANGED <<now, authSessions, deviceFingerprints, authChallenges,
                   webauthnCredentials, mfaChallenges, attempts, securityLogs, authCodes, req, hist,
                   users, pushTokens, vaultEntries>>

\* A and B have registered their accounts; nothing else has happened
InitRisk ==
    /\ now \in StartTimes
    /\ authSessions = <<>>
    /\ deviceFingerprints = [f \in Fingerprints |-> NoDevice]
    /\ authChallenges = <<>>
    /\ webauthnCredentials = <<>>
    /\ mfaChallenges = <<>>
    /\ attempts = <<>>
    /\ securityLogs = RegisteredLogs
    /\ users = RegisteredUsers
    /\ pushTokens = NoPushTokens
    /\ vaultEntries = <<>>
    /\ authCodes = <<>>
    /\ req = [w \in Workers |-> Idle]
    /\ out = NoOut
    /\ hist = <<>>

\* An assessment reads the stores and writes nothing, so the histories are
\* built from the states that hold no assessment: the stores reached are the same.
RiskLoginStart(w, u, d) == out.op # "assess" /\ LoginStart(w, u, TRUE, d)

RiskLoginFinish(w) == out.op # "assess" /\ LoginFinish(w, "valid")

RiskLogoutAll(i, signed) == out.op # "assess" /\ LogoutAll(i, signed)

RiskTrustDevice(i, signed, f) == out.op # "assess" /\ TrustDevice(i, signed, f)

RiskAdvance == out.op # "assess" /\ now \in StartTimes /\ Advance(SevenDays)

RiskAssess(u, d, m) == out.op # "assess" /\ Assess(u, d, m)

\* the workers that take the logins of this specification
RiskWorkers == {1}

NextRisk ==
    \/ \E w \in RiskWorkers, u \in Users, d \in Devices : RiskLoginStart(w, u, d)
    \/ \E w \in RiskWorkers : RiskLoginFinish(w)
    \/ \E i \in 0..MaxSessions, signed \in BOOLEAN : RiskLogoutAll(i, signed)
    \/ \E i \in 0..MaxSessions, signed \in BOOLEAN, f \in Fingerprints :
          RiskTrustDevice(i, signed, f)
    \/ RiskAdvance
    \/ \E u \in Users, d \in Devices, m \in AuthMethods : RiskAssess(u, d, m)

SpecRisk == InitRisk /\ [][NextRisk]_vars

-----------------------------------------------------------------------------
(* Claims on the risk engine *)

\* C10: whenever the fingerprint's record is bound to a principal other than
\* the one whose login is assessed, the device risk is at least 80 and the
\* recommendation is not allow.
C10_OtherPrincipalsDeviceIsHighRisk ==
    (out.op = "assess" /\ out.owner \in Users /\ out.owner # out.userId)
        => (out.result.deviceRisk >= 80 /\ out.result.recommendation # "allow")

-----------------------------------------------------------------------------
(* WebAuthn authentication ceremonies: /webauthn/authenticate/begin and
   /webauthn/authenticate/complete, the latter cut at its one asynchronous
   wait, the library's check of the assertion *)

ChallengeTTL == 1

MaxChallenges == 2
MaxCounter == 2

CredentialIds == {"k1", "k2"}
WebDevices == {d \in Devices : d.fingerprint = "f1"}

\* what a lookup that finds nothing answers (undefined)
NoChallenge == [challenge |-> 0, type |-> Null, userId |-> Null,
                expiresAt |-> 0, isUsed |-> FALSE]
NoCredential == [credentialId |-> Null, userId |-> Null, counter |-> 0]

\* MemStorage.getAuthChallenge: the record, unless absent, expired or used
getAuthChallenge(challenges, challenge, t) ==
    IF /\ challenge \in 1..Len(challenges)
       /\ challenges[challenge].expiresAt > t
       /\ ~challenges[challenge].isUsed
    THEN challenges[challenge]
    ELSE NoChallenge

\* MemStorage.createAuthChallenge; the challenge value is the library's fresh
\* random string, here the next unused number
createAuthChallenge(challenges, type, userId, expiresAt) ==
    Append(challenges, [challenge |-> Len(challenges) + 1,
                        type |-> type,
                        userId |-> IF userId \in {Undefined, Null} THEN Null ELSE userId,
                        expiresAt |-> expiresAt,
                        isUsed |-> FALSE])

\* a store that forgets the write
markChallengeUsed_notWritten(challenges, challenge) == challenges

markChallengeUsed(challenges, challenge) ==
    [i \in 1..Len(challenges) |->
        IF i = challenge THEN [challenges[i] EXCEPT !.isUsed = TRUE]
        ELSE challenges[i]]

hasCredential(credentials, credentialId) ==
    \E i \in 1..Len(credentials) : credentials[i].credentialId = credentialId

\* Array.from(values).find(...): the first credential with that id
credentialIndex(credentials, credentialId) ==
    CHOOSE i \in 1..Len(credentials) :
        /\ credentials[i].credentialId = credentialId
        /\ \A j \in 1..(i - 1) : credentials[j].credentialId # credentialId

getWebauthnCredentialByCredentialId(credentials, credentialId) ==
    IF hasCredential(credentials, credentialId)
    THEN credentials[credentialIndex(credentials, credentialId)]
    ELSE NoCredential

\* MemStorage.updateWebauthnCredentialCounter: writes the counter it is given
updateWebauthnCredentialCounter(credentials, credentialId, counter) ==
    IF hasCredential(credentials, credentialId)
    THEN [credentials EXCEPT
             ![credentialIndex(credentials, credentialId)].counter = counter]
    ELSE credentials

\* @simplewebauthn/server verifyAuthenticationResponse on the credential the
\* caller passes: a counter that does not advance throws unless both counters
\* are zero; otherwise the answer is that of the signature check
verifyAuthenticationResponse(counter, credentialCounter, signatureOk) ==
    IF (counter > 0 \/ credentialCounter > 0) /\ counter <= credentialCounter
    THEN "throw"
    ELSE IF signatureOk THEN "verified" ELSE "unverified"

\* history of single-use grants
Count(e) == IF e \in DOMAIN hist THEN hist[e] ELSE 0

Recorded(e) ==
    [x \in DOMAIN hist \cup {e} |-> IF x = e THEN Count(e) + 1 ELSE hist[x]]

\* how many assertions have verified so far, over all challenges
verifiedCount ==
    Cardinality(UNION {{<<c, k>> : k \in 1..Count(<<"verified", c>>)} :
                          c \in 1..Len(authChallenges)})

-----------------------------------------------------------------------------
(* routes/auth: the WebAuthn authentication handlers *)

\* POST /webauthn/authenticate/begin; userId is optional in the body
AuthBegin(userId) ==
    /\ Len(authChallenges) < MaxChallenges
    /\ authChallenges' = createAuthChallenge(authChallenges, "webauthn_auth",
                                             userId, now + ChallengeTTL)
    /\ out' = [op |-> "begin", status |-> 200,
               challenge |-> Len(authChallenges) + 1]
    /\ UNCHANGED <<now, authSessions, deviceFingerprints, webauthnCredentials,
                   mfaChallenges, attempts, securityLogs, authCodes, req, hist,
                   users, pushTokens, vaultEntries>>

\* a service that takes the credential's owner without looking at the userId
\* the request names
credentialBelongsToUser_unchecked(credential, userId) == TRUE

\* verifyAuthentication: if (userId && credential.userId !== userId) throw
credentialBelongsToUser(credential, userId) ==
    ~truthy(userId) \/ credential.userId = userId

\* POST /webauthn/authenticate/complete up to the call of the library:
\* verifyAuthentication reads the challenge and the credential and hands the
\* library the counter it has just read
AuthStart(w, userId, challenge, credentialId, counter, d) ==
    LET challengeRecord == getAuthChallenge(authChallenges, challenge, now)
        credential == getWebauthnCredentialByCredentialId(webauthnCredentials,
                                                          credentialId)
        inFlight == Cardinality({v \in Workers : req[v] # Idle /\ req[v].pc = "verify"})
    IN  /\ req[w] = Idle
        /\ verifiedCount + inFlight < MaxSessions
        /\ UNCHANGED <<now, authSessions, deviceFingerprints, authChallenges,
                       webauthnCredentials, mfaChallenges, attempts, securityLogs, authCodes, hist,
                   users, pushTokens, vaultEntries>>
        /\ IF \/ challengeRecord = NoChallenge
              \/ credential = NoCredential
              \/ ~credentialBelongsToUser(credential, userId)
           THEN /\ out' = [op |-> "webauthn", status |-> 500,
                           code |-> "WEBAUTHN_AUTH_VERIFICATION_FAILED",
                           named |-> userId, credentialId |-> credentialId]
                /\ UNCHANGED req
           ELSE /\ req' = [req EXCEPT ![w] =
                              [pc |-> "verify",
                               named |-> userId,
                               challenge |-> challenge,
                               credentialId |-> credentialId,
                               userId |-> credential.userId,
                               credentialCounter |-> credential.counter,
                               counter |-> counter,
                               device |-> d]]
                /\ UNCHANGED out

\* ... from the library's answer to the return of verifyAuthentication: the
\* counter and the challenge are written. signatureOk is whether the
\* assertion's signature is the credential's.
AuthFinish(w, signatureOk) ==
    LET r == req[w]
        verification == verifyAuthenticationResponse(r.counter,
                            r.credentialCounter, signatureOk)
    IN  /\ req[w] # Idle
        /\ req[w].pc = "verify"
        /\ UNCHANGED <<now, authSessions, deviceFingerprints, mfaChallenges,
                       attempts, securityLogs, authCodes,
                       users, pushTokens, vaultEntries>>
        /\ IF verification = "verified"
           THEN /\ webauthnCredentials' =
                       updateWebauthnCredentialCounter(webauthnCredentials,
                                                       r.credentialId, r.counter)
                /\ authChallenges' = markChallengeUsed(authChallenges, r.challenge)
                /\ hist' = Recorded(<<"verified", r.challenge>>)
                /\ req' = [req EXCEPT ![w] =
                              [pc |-> "grant",
                               challenge |-> r.challenge,
                               credentialId |-> r.credentialId,
                               userId |-> r.userId,
                               device |-> r.device]]
                /\ out' = NoOut
           ELSE /\ out' = IF verification = "throw"
                          THEN [op |-> "webauthn", status |-> 500,
                                code |-> "WEBAUTHN_AUTH_VERIFICATION_FAILED"]
                          ELSE [op |-> "webauthn", status |-> 401,
                                code |-> "WEBAUTHN_AUTH_FAILED"]
                /\ req' = [req EXCEPT ![w] = Idle]
                /\ UNCHANGED <<authChallenges, webauthnCredentials, hist>>

\* ... and the rest of the route, once verifyAuthentication has answered
\* verified: the device is recorded, the login assessed, and the session
\* created unless the assessment says block. The route is taken in two steps
\* so that the state between them, which is what a request that stops there
\* leaves behind, is a state of the model.
AuthGrant(w) ==
    LET r == req[w]
    IN  /\ req[w] # Idle
        /\ req[w].pc = "grant"
        /\ req' = [req EXCEPT ![w] = Idle]
        /\ UNCHANGED <<now, authChallenges, webauthnCredentials, mfaChallenges,
                       attempts, authCodes, hist,
                   users, pushTokens, vaultEntries>>
        /\ IF getUser(users, r.userId) = NoUser
           THEN /\ out' = [op |-> "webauthn", status |-> 404,
                           code |-> "USER_NOT_FOUND"]
                /\ UNCHANGED <<authSessions, deviceFingerprints, securityLogs>>
           ELSE webauthnGrant(r.userId, r.device, r.credentialId)

\* A request of POST /webauthn/authenticate/complete that is in flight stops
\* where it is: an await of the handler throws (the route's catch answers 500)
\* or the process ends the request. What it has written stays written.
AuthCancel(w) ==
    /\ req[w] # Idle
    /\ req[w].pc \in {"verify", "grant"}
    /\ req' = [req EXCEPT ![w] = Idle]
    /\ out' = [op |-> "webauthn", status |-> 500,
               code |-> "WEBAUTHN_AUTH_VERIFICATION_FAILED"]
    /\ UNCHANGED <<now, authSessions, deviceFingerprints, authChallenges,
                   webauthnCredentials, mfaChallenges, attempts, securityLogs,
                   authCodes, hist,
                   users, pushTokens, vaultEntries>>

WebAdvance == now < MaxTime /\ Advance(1)

\* Both principals have registered their accounts and hold a credential;
\* nothing else has happened
InitWebAuthn ==
    /\ now = 0
    /\ authSessions = <<>>
    /\ deviceFingerprints = [f \in Fingerprints |-> NoDevice]
    /\ authChallenges = <<>>
    /\ webauthnCredentials =
           <<[credentialId |-> "k1", userId |-> "A", counter |-> 0],
             [credentialId |-> "k2", userId |-> "B", counter |-> 0]>>
    /\ mfaChallenges = <<>>
    /\ attempts = <<>>
    /\ securityLogs = RegisteredLogs
    /\ users = RegisteredUsers
    /\ pushTokens = NoPushTokens
    /\ vaultEntries = <<>>
    /\ authCodes = <<>>
    /\ req = [w \in Workers |-> Idle]
    /\ out = NoOut
    /\ hist = <<>>

NextWebAuthn ==
    \/ \E userId \in {"A", Undefined} : AuthBegin(userId)
    \/ \E w \in Workers, userId \in {"A", Undefined},
          challenge \in 1..MaxChallenges,
          credentialId \in CredentialIds \cup {"k0"},
          counter \in 0..MaxCounter, d \in WebDevices :
            AuthStart(w, userId, challenge, credentialId, counter, d)
    \/ \E w \in Workers, signatureOk \in BOOLEAN : AuthFinish(w, signatureOk)
    \/ \E w \in Workers : AuthGrant(w)
    \/ \E w \in Workers : AuthCancel(w)
    \/ WebAdvance

SpecWebAuthn == InitWebAuthn /\ [][NextWebAuthn]_vars

-----------------------------------------------------------------------------
(* Claims on the WebAuthn ceremonies *)

\* C1: of all the completions that present one challenge, at most one returns
\* verified, whatever their order or interleaving.
C1_ChallengeVerifiedAtMostOnce ==
    \A challenge \in 1..MaxChallenges : Count(<<"verified", challenge>>) <= 1

\* C8: a completion whose assertion carries a counter not above the
\* credential's stored counter is answered without a verified result: no
\* session is created and the stored counter stays as it is.
C8_StaleCounterRejected ==
    [][\A w \in Workers :
          (/\ req[w] # Idle
           /\ req[w].pc = "verify"
           /\ req'[w] # req[w]
           /\ req[w].counter <=
                getWebauthnCredentialByCredentialId(webauthnCredentials,
                                                    req[w].credentialId).counter)
          => (/\ req'[w] = Idle
              /\ out'.status # 200
              /\ hist' = hist
              /\ authSessions' = authSessions
              /\ webauthnCredentials' = webauthnCredentials)]_vars

\* C9: no step lowers the stored counter of a credential.
C9_CounterNeverDecreases ==
    [][\A i \in 1..Len(webauthnCredentials) :
          webauthnCredentials'[i].counter >= webauthnCredentials[i].counter]_vars

\* C4: a login attempt assessed as mfa_required is not answered with tokens
\* and a session unless an MFA challenge of that principal stands approved.
C4_NoSessionBeforeStepUp ==
    (/\ out.op = "webauthn"
     /\ "recommendation" \in DOMAIN out
     /\ out.recommendation = "mfa_required")
        => \/ out.status # 200
           \/ \E i \in 1..Len(mfaChallenges) :
                 /\ mfaChallenges[i].userId = out.userId
                 /\ mfaChallenges[i].isApproved

-----------------------------------------------------------------------------
(* OIDC provider: authorization codes and the token endpoint *)

CodeTTL == 10

MaxCodes == 2

\* The development client registered when the service is loaded, and one
\* client registered through POST /register
Clients ==
    [c \in {"lockmind-dev", "lm_1"} |->
        IF c = "lockmind-dev"
        THEN [clientSecret |-> "dev-secret", redirectUris |-> {"r1", "r2"}]
        ELSE [clientSecret |-> "secret_1", redirectUris |-> {"r1"}]]

ClientIds == {"lockmind-dev", "lm_1", Undefined}
ClientSecrets == {"dev-secret", "secret_1", Undefined}
RedirectUris == {"r1", "r2"}
CodeVerifiers == {"v1", "v2", Undefined}

\* createHash('sha256').update(code_verifier).digest('base64url')
S256(codeVerifier) == IF codeVerifier = "v1" THEN "h1" ELSE "h2"

\* code_challenge and code_challenge_method as a client may send them
Pkce == {[codeChallenge |-> Undefined, codeChallengeMethod |-> Undefined],
         [codeChallenge |-> "h1", codeChallengeMethod |-> "S256"],
         [codeChallenge |-> "h1", codeChallengeMethod |-> "plain"]}

\* a key the map does not hold
NoCode == [code |-> 0, clientId |-> Null, userId |-> Null,
           redirectUri |-> Null, scope |-> Null, expiresAt |-> 0,
           codeChallenge |-> Undefined, codeChallengeMethod |-> Undefined]

\* OIDCService.generateAuthorizationCode; the code is a fresh random string,
\* here the next unused number
generateAuthorizationCode(codes, clientId, userId, redirectUri, scope, codeChallenge, codeChallengeMethod, t) ==
    Append(codes, [code |-> Len(codes) + 1,
                   clientId |-> clientId,
                   userId |-> userId,
                   redirectUri |-> redirectUri,
                   scope |-> scope,
                   expiresAt |-> t + CodeTTL,
                   codeChallenge |-> codeChallenge,
                   codeChallengeMethod |-> codeChallengeMethod])

deleteCode(codes, code) ==
    [i \in 1..Len(codes) |-> IF i = code THEN NoCode ELSE codes[i]]

\* OIDCService.getAuthorizationCode: what it returns ...
getAuthorizationCode(codes, code, t) ==
    IF code \in 1..Len(codes) /\ codes[code] # NoCode
                              /\ ~(codes[code].expiresAt < t)
    THEN codes[code]
    ELSE NoCode

\* ... and the map it leaves: an expired code is deleted
afterGetAuthorizationCode(codes, code, t) ==
    IF code \in 1..Len(codes) /\ codes[code] # NoCode
                              /\ codes[code].expiresAt < t
    THEN deleteCode(codes, code)
    ELSE codes

\* The map OIDCService.consumeAuthorizationCode leaves: the code it returns
\* (that of getAuthorizationCode) is deleted
afterConsumeAuthorizationCode_keepsCode(codes, code, t) ==
    afterGetAuthorizationCode(codes, code, t)

afterConsumeAuthorizationCode(codes, code, t) ==
    IF getAuthorizationCode(codes, code, t) # NoCode
    THEN deleteCode(afterGetAuthorizationCode(codes, code, t), code)
    ELSE afterGetAuthorizationCode(codes, code, t)

-----------------------------------------------------------------------------
(* routes/oidc *)

\* POST /authorize/callback, behind the guard, for the principal userId
AuthorizeCallback(userId, client_id, redirect_uri, pkce) ==
    /\ Len(authCodes) < MaxCodes
    /\ UNCHANGED <<now, authSessions, deviceFingerprints, authChallenges,
                   webauthnCredentials, mfaChallenges, attempts, req, hist,
                   users, pushTokens, vaultEntries>>
    /\ IF \/ client_id \notin DOMAIN Clients
          \/ redirect_uri \notin Clients[client_id].redirectUris
       THEN /\ out' = [op |-> "authorize", status |-> 400,
                       error |-> "invalid_client"]
            /\ UNCHANGED <<authCodes, securityLogs>>
       ELSE /\ authCodes' = generateAuthorizationCode(authCodes, client_id,
                                userId, redirect_uri, "openid",
                                pkce.codeChallenge, pkce.codeChallengeMethod, now)
            /\ securityLogs' = createSecurityLog(securityLogs, userId,
                                   "OIDC authorization granted for client")
            /\ out' = [op |-> "authorize", status |-> 200,
                       code |-> Len(authCodes) + 1]

\* the comparison without the redirect URI
codeMatchesRequest_clientOnly(authCode, client_id, redirect_uri) ==
    authCode.clientId = client_id

\* "Validate authorization code": the request names the client and the
\* redirect URI the code was minted with
codeMatchesRequest(authCode, client_id, redirect_uri) ==
    /\ authCode.clientId = client_id
    /\ authCode.redirectUri = redirect_uri

TokenError(status, error, code, replay) ==
    [op |-> "token", status |-> status, error |-> error, code |-> code,
     replay |-> replay]

\* POST /token up to the signing of the ID token: the client is authenticated,
\* the code consumed and then validated, the device recorded, the access token
\* signed. replay notes
\* whether an earlier call had consumed this code.  A request that has passed
\* every validation goes on to TokenFinish; out then shows the request and the
\* code record it was accepted with.
TokenStart(w, grant_type, code, redirect_uri, client_id, client_secret, code_verifier, d) ==
    LET authCode == getAuthorizationCode(authCodes, code, now)
        replay == Count(<<"consumed", code>>) >= 1
        inFlight == Cardinality({v \in Workers : req[v] # Idle})
        \* the code record passes the checks made after it is consumed
        validated ==
            /\ codeMatchesRequest(authCode, client_id, redirect_uri)
            /\ (authCode.codeChallenge # Undefined
                   /\ authCode.codeChallengeMethod = "S256")
                  => (code_verifier # Undefined
                        /\ S256(code_verifier) = authCode.codeChallenge)
    IN  /\ req[w] = Idle
        /\ \A v \in 1..(w - 1) : req[v] # Idle
        /\ Len(authSessions) + inFlight < MaxSessions
        /\ UNCHANGED <<now, authSessions, authChallenges, webauthnCredentials,
                       mfaChallenges, attempts, securityLogs,
                   users, pushTokens, vaultEntries>>
        /\ IF grant_type # "authorization_code"
           THEN /\ out' = TokenError(400, "unsupported_grant_type", code, FALSE)
                /\ UNCHANGED <<authCodes, deviceFingerprints, req, hist>>
           ELSE IF client_id = Undefined \/ client_secret = Undefined
           THEN /\ out' = TokenError(400, "invalid_request", code, FALSE)
                /\ UNCHANGED <<authCodes, deviceFingerprints, req, hist>>
           ELSE IF Clients[client_id].clientSecret # client_secret
           THEN /\ out' = TokenError(401, "invalid_client", code, FALSE)
                /\ UNCHANGED <<authCodes, deviceFingerprints, req, hist>>
           ELSE
             /\ authCodes' = afterConsumeAuthorizationCode(authCodes, code, now)
             /\ hist' = IF authCode = NoCode THEN hist
                        ELSE IF validated THEN Recorded(<<"consumed", code>>)
                        ELSE (<<"rejected", code>> :> Count(<<"rejected", code>>) + 1)
                                @@ Recorded(<<"consumed", code>>)
             /\ IF authCode = NoCode
                THEN /\ out' = TokenError(400, "invalid_grant", code, replay)
                     /\ UNCHANGED <<deviceFingerprints, req>>
                ELSE IF ~codeMatchesRequest(authCode, client_id, redirect_uri)
                THEN /\ out' = TokenError(400, "invalid_grant", code, replay)
                     /\ UNCHANGED <<deviceFingerprints, req>>
                ELSE IF /\ authCode.codeChallenge # Undefined
                        /\ authCode.codeChallengeMethod = "S256"
                        /\ code_verifier = Undefined
                THEN /\ out' = TokenError(400, "invalid_request", code, replay)
                     /\ UNCHANGED <<deviceFingerprints, req>>
                ELSE IF /\ authCode.codeChallenge # Undefined
                        /\ authCode.codeChallengeMethod = "S256"
                        /\ S256(code_verifier) # authCode.codeChallenge
                THEN /\ out' = TokenError(400, "invalid_grant", code, replay)
                     /\ UNCHANGED <<deviceFingerprints, req>>
                ELSE /\ deviceFingerprints' =
                            recordDeviceLogin(deviceFingerprints, d, authCode.userId)
                     /\ req' = [req EXCEPT ![w] =
                                   [pc |-> "tokens", code |-> code,
                                    userId |-> authCode.userId,
                                    device |-> d, replay |-> replay,
                                    signedAt |-> now]]
                     /\ out' = [op |-> "token-accepted", code |-> code,
                                authCode |-> authCode,
                                client_id |-> client_id,
                                client_secret |-> client_secret,
                                redirect_uri |-> redirect_uri,
                                code_verifier |-> code_verifier]

\* ... and from the signed ID token on: the session is created and the tokens
\* are the answer.  OIDCService.generateTokens signs the access token before
\* it waits for the ID token, so the access token carries the clock of
\* TokenStart (signedAt) and the session the clock of this step.
TokenFinish(w) ==
    LET r == req[w]
        n == Len(authSessions) + 1
        access_token == generateAccessToken(n, r.userId, "oidc", 20,
                                            "oidc-federated", r.signedAt)
        refresh_token == generateRefreshToken(n)
    IN  /\ req[w] # Idle
        /\ req' = [req EXCEPT ![w] = Idle]
        /\ authSessions' = createAuthSession(authSessions, r.userId, access_token,
                               refresh_token, r.device, "oidc", 20,
                               now + SessionTTL, now)
        /\ securityLogs' = createSecurityLog(securityLogs, r.userId,
                               "OIDC token exchange successful for client")
        /\ hist' = Recorded(<<"tokens", r.code>>)
        /\ out' = [op |-> "token", status |-> 200, error |-> Null,
                   code |-> r.code, replay |-> r.replay,
                   access_token |-> access_token,
                   refresh_token |-> refresh_token]
        /\ UNCHANGED <<now, deviceFingerprints, authChallenges,
                       webauthnCredentials, mfaChallenges, attempts, authCodes,
                   users, pushTokens, vaultEntries>>

OidcAdvance(d) == now < MaxTime /\ Advance(d)

\* The bodies of POST /token: every request of an authenticated client, and
\* one request for each way of failing before the client is authenticated
\* (the handler reads no further field of those)
TokenRequests ==
    {r \in [grant_type : {"authorization_code", "refresh_token"},
            code : 1..MaxCodes,
            redirect_uri : RedirectUris,
            client_id : ClientIds,
            client_secret : ClientSecrets,
            code_verifier : CodeVerifiers] :
        \/ /\ r.grant_type = "authorization_code"
           /\ r.client_id \in DOMAIN Clients
           /\ r.client_secret = Clients[r.client_id].clientSecret
        \/ /\ r.redirect_uri = "r1"
           /\ r.code_verifier = Undefined
           /\ \/ /\ r.grant_type = "refresh_token"
                 /\ r.client_id = "lockmind-dev"
                 /\ r.client_secret = "dev-secret"
              \/ /\ r.grant_type = "authorization_code"
                 /\ r.client_id = Undefined
                 /\ r.client_secret = "dev-secret"
              \/ /\ r.grant_type = "authorization_code"
                 /\ r.client_id = "lockmind-dev"
                 /\ r.client_secret \in {"secret_1", Undefined}}

\* A and B have registered their accounts; the stores are otherwise as the
\* constructors leave them
InitOIDC ==
    /\ now = 0
    /\ authSessions = <<>>
    /\ deviceFingerprints = [f \in Fingerprints |-> NoDevice]
    /\ authChallenges = <<>>
    /\ webauthnCredentials = <<>>
    /\ mfaChallenges = <<>>
    /\ attempts = <<>>
    /\ securityLogs = RegisteredLogs
    /\ users = RegisteredUsers
    /\ pushTokens = NoPushTokens
    /\ vaultEntries = <<>>
    /\ authCodes = <<>>
    /\ req = [w \in Workers |-> Idle]
    /\ out = NoOut
    /\ hist = <<>>

NextOIDC ==
    \/ \E userId \in Users, client_id \in ClientIds \ {Undefined},
          redirect_uri \in RedirectUris, pkce \in Pkce :
            AuthorizeCallback(userId, client_id, redirect_uri, pkce)
    \/ \E w \in Workers, r \in TokenRequests, d \in WebDevices :
            TokenStart(w, r.grant_type, r.code, r.redirect_uri, r.client_id,
                       r.client_secret, r.code_verifier, d)
    \/ \E w \in Workers : TokenFinish(w)
    \/ \E d \in {1, CodeTTL} : OidcAdvance(d)

SpecOIDC == InitOIDC /\ [][NextOIDC]_vars

-----------------------------------------------------------------------------
(* Claims on the token endpoint *)

oidcSessions == {i \in 1..Len(authSessions) : authSessions[i].authMethod = "oidc"}

redeemedCodes == {code \in 1..MaxCodes : Count(<<"tokens", code>>) >= 1}

C17_ChallengeRequiresMatchingVerifier ==
    (out.op = "token-accepted" /\ out.authCode.codeChallenge # Undefined) =>
        /\ out.code_verifier # Undefined
        /\ out.authCode.codeChallenge =
              IF out.authCode.codeChallengeMethod = "S256"
              THEN S256(out.code_verifier)
              ELSE out.code_verifier

\* C18: the token endpoint issues tokens and a session only for a request
\* whose client_secret is the registered secret of its client_id, whose
\* client_id is the client the code was minted for and whose redirect_uri is
\* the one bound to the code; the tokens and the session are for the
\* principal bound to the code; and every code in the store was minted for a
\* principal, a registered client and one of that client's redirect URIs.
C18_TokensOnlyForTheCodesClientAndPrincipal ==
    [][/\ out'.op = "token-accepted" =>
            /\ out'.client_id \in DOMAIN Clients
            /\ out'.client_secret = Clients[out'.client_id].clientSecret
            /\ out'.client_id = out'.authCode.clientId
            /\ out'.redirect_uri = out'.authCode.redirectUri
            /\ out'.authCode = getAuthorizationCode(authCodes, out'.code, now)
            /\ \A w \in Workers : (req[w] = Idle /\ req'[w] # Idle) =>
                    req'[w].userId = out'.authCode.userId
       /\ \A w \in Workers : (req[w] # Idle /\ req'[w] = Idle) =>
            /\ out'.op = "token"
            /\ out'.status = 200
            /\ out'.access_token.userId = req[w].userId
            /\ Len(authSessions') = Len(authSessions) + 1
            /\ authSessions'[Len(authSessions')].userId = req[w].userId
            /\ authSessions'[Len(authSessions')].sessionToken = out'.access_token
       /\ Len(authSessions') > Len(authSessions) =>
            \E w \in Workers : req[w] # Idle /\ req'[w] = Idle
       /\ \A i \in 1..Len(authCodes') : authCodes'[i] # NoCode =>
            /\ authCodes'[i].userId \in Users
            /\ authCodes'[i].clientId \in DOMAIN Clients
            /\ authCodes'[i].redirectUri \in Clients[authCodes'[i].clientId].redirectUris
      ]_vars

\* tokens and a session have been issued to B, while a code minted for the
\* development client is still in the store
C18_Witness ==
    /\ out.op = "token"
    /\ out.status = 200
    /\ out.access_token.userId = "B"
    /\ authSessions[Len(authSessions)].userId = "B"
    /\ \E i \in 1..Len(authCodes) : authCodes[i] # NoCode /\ authCodes[i].clientId = "lockmind-dev"

-----------------------------------------------------------------------------
(* middleware/rateLimiter: RateLimiter.createRateLimiter.  The clock counts
   minutes, so the windows are 5, 1, 10 and 1 and the block duration is 15;
   retryAfter is in seconds. *)

SecondsPerMinute == 60

\* RateLimiter.configs; a configuration without blockDuration has 0
RateLimitConfigs ==
    [mfaChallenge |-> [windowMs |-> 5, maxAttempts |-> 3, blockDuration |-> 15],
     mfaApproval |-> [windowMs |-> 1, maxAttempts |-> 5, blockDuration |-> 0],
     tokenRegistration |-> [windowMs |-> 10, maxAttempts |-> 10, blockDuration |-> 0],
     default |-> [windowMs |-> 1, maxAttempts |-> 20, blockDuration |-> 0]]

\* getClientKey: address, principal and user agent of the request
ClientKeys == {"k1"}

\* a key the map does not hold
NoEntry == [count |-> 0, firstAttempt |-> 0 - 1, lastAttempt |-> 0 - 1]

\* The closure createRateLimiter returns, on the entry of the request's key
\* at clock t: the entry it leaves and what it answers (status 200 is next())
rateLimit(entry, config, t) ==
    IF entry = NoEntry \/ t - entry.firstAttempt > config.windowMs
    THEN [entry |-> [count |-> 1, firstAttempt |-> t, lastAttempt |-> t],
          status |-> 200, retryAfter |-> 0]
    ELSE IF /\ config.blockDuration # 0
            /\ entry.count >= config.maxAttempts
            /\ t - entry.lastAttempt < config.blockDuration
    THEN [entry |-> entry, status |-> 429,
          retryAfter |-> (config.blockDuration - (t - entry.lastAttempt)) * SecondsPerMinute]
    ELSE IF entry.count + 1 > config.maxAttempts
    THEN [entry |-> [entry EXCEPT !.count = @ + 1, !.lastAttempt = t],
          status |-> 429, retryAfter |-> config.windowMs * SecondsPerMinute]
    ELSE [entry |-> [entry EXCEPT !.count = @ + 1, !.lastAttempt = t],
          status |-> 200, retryAfter |-> 0]

-----------------------------------------------------------------------------
(* Push MFA challenges: PushNotificationService over MemStorage, and the
   routes that call it *)

MfaTTL == 5

MaxMfaChallenges == 2
MaxApprovals == 2

\* a key the map does not hold, or whose challenge has expired
NoMfaChallenge == [challengeCode |-> 0, userId |-> Null, type |-> Null,
                   expiresAt |-> 0, isApproved |-> FALSE]

\* MemStorage.getMfaChallenge
getMfaChallenge(challenges, challengeCode, t) ==
    IF challengeCode \in 1..Len(challenges)
       /\ challenges[challengeCode].expiresAt > t
    THEN challenges[challengeCode]
    ELSE NoMfaChallenge

\* MemStorage.createMfaChallenge; isApproved starts null, which every reader
\* takes as false. The code is a fresh random string, here the next number.
createMfaChallenge(challenges, userId, expiresAt) ==
    Append(challenges, [challengeCode |-> Len(challenges) + 1,
                        userId |-> userId,
                        type |-> "push",
                        expiresAt |-> expiresAt,
                        isApproved |-> FALSE])

\* MemStorage.approveMfaChallenge: whether it succeeds ...
canApproveMfaChallenge(challenges, challengeCode, t) ==
    /\ challengeCode \in 1..Len(challenges)
    /\ ~(challenges[challengeCode].expiresAt <= t)

\* ... and the map it leaves
approveMfaChallenge(challenges, challengeCode, t) ==
    IF canApproveMfaChallenge(challenges, challengeCode, t)
    THEN [challenges EXCEPT ![challengeCode].isApproved = TRUE]
    ELSE challenges

\* PushNotificationService.approveMFAChallenge: whether it answers true
approveMFAChallenge(challenges, challengeCode, userId, t) ==
    LET challenge == getMfaChallenge(challenges, challengeCode, t)
    IN  /\ challenge # NoMfaChallenge
        /\ ~(truthy(userId) /\ challenge.userId # userId)
        /\ ~(challenge.expiresAt < t)
        /\ canApproveMfaChallenge(challenges, challengeCode, t)

\* The model follows a client key up to MaxAttemptCount counted requests of
\* a window, and up to MaxApprovalAttempts when the request is an approval
MaxAttemptCount == 4
MaxApprovalAttempts == 6

\* what a route answers when its limiter refuses the request
rateLimited(op, answer) ==
    [op |-> op, status |-> 429, code |-> "RATE_LIMITED",
     retryAfter |-> answer.retryAfter]

\* POST /register of the push router: the limiter tokenRegistration, the guard
\* (passed, for the principal userId), then the handler.  key is the client
\* key of the request; the limiter runs before the guard, so the key names no
\* principal.
PushRegister(key, userId, token, platform) ==
    LET answer == rateLimit(attempts[key], RateLimitConfigs.tokenRegistration, now)
    IN  /\ attempts[key].count < MaxAttemptCount
        /\ attempts' = [attempts EXCEPT ![key] = answer.entry]
        /\ UNCHANGED <<now, authSessions, deviceFingerprints, authChallenges,
                       webauthnCredentials, mfaChallenges, authCodes, users,
                       vaultEntries, req, hist>>
        /\ IF answer.status = 429
           THEN /\ out' = rateLimited("push-register", answer)
                /\ UNCHANGED <<pushTokens, securityLogs>>
           ELSE IF ~truthy(token) \/ ~truthy(platform)
           THEN /\ out' = [op |-> "push-register", status |-> 400,
                           code |-> "MISSING_FIELDS"]
                /\ UNCHANGED <<pushTokens, securityLogs>>
           ELSE IF toLowerCase(platform) \notin {"ios", "android", "web"}
           THEN /\ out' = [op |-> "push-register", status |-> 400,
                           code |-> "INVALID_PLATFORM"]
                /\ UNCHANGED <<pushTokens, securityLogs>>
           ELSE /\ Len(securityLogs) < MaxLogs
                /\ pushTokens' = createPushToken(pushTokens, userId, token,
                                                 toLowerCase(platform))
                /\ securityLogs' = createSecurityLog(securityLogs, userId,
                                       "Push notification token registered")
                /\ out' = [op |-> "push-register", status |-> 200, code |-> Null]

\* DELETE /unregister of the push router: the limiter default, the guard
\* (passed, for the principal userId), then the handler;
\* PushNotificationService.unregisterPushToken throws for a token that is not
\* an active token of the principal
PushUnregister(key, userId, token) ==
    LET answer == rateLimit(attempts[key], RateLimitConfigs.default, now)
    IN  /\ attempts[key].count < MaxAttemptCount
        /\ attempts' = [attempts EXCEPT ![key] = answer.entry]
        /\ UNCHANGED <<now, authSessions, deviceFingerprints, authChallenges,
                       webauthnCredentials, mfaChallenges, authCodes, users,
                       vaultEntries, req, hist>>
        /\ IF answer.status = 429
           THEN /\ out' = rateLimited("push-unregister", answer)
                /\ UNCHANGED <<pushTokens, securityLogs>>
           ELSE IF ~truthy(token)
           THEN /\ out' = [op |-> "push-unregister", status |-> 400,
                           code |-> "MISSING_TOKEN"]
                /\ UNCHANGED <<pushTokens, securityLogs>>
           ELSE IF token \notin getPushTokens(pushTokens, userId)
           THEN /\ out' = [op |-> "push-unregister", status |-> 500,
                           code |-> "UNREGISTER_FAILED"]
                /\ UNCHANGED <<pushTokens, securityLogs>>
           ELSE /\ Len(securityLogs) < MaxLogs
                /\ pushTokens' = deactivatePushToken(pushTokens, token)
                /\ securityLogs' = createSecurityLog(securityLogs, userId,
                                       "Push notification token unregistered")
                /\ out' = [op |-> "push-unregister", status |-> 200,
                           code |-> Null]

\* POST /mfa/challenge: the limiter mfaChallenge, the guard (passed, for the
\* principal userId), then the handler; expiresIn comes with the request.
\* PushNotificationService.sendMFAChallenge stores the challenge before it
\* looks for the push tokens of the principal.
SendMFAChallenge(key, userId, expiresIn) ==
    LET answer == rateLimit(attempts[key], RateLimitConfigs.mfaChallenge, now)
        hasPushToken == getPushTokens(pushTokens, userId) # {}
    IN  /\ attempts[key].count < MaxAttemptCount
        /\ attempts' = [attempts EXCEPT ![key] = answer.entry]
        /\ UNCHANGED <<now, authSessions, deviceFingerprints, authChallenges,
                       webauthnCredentials, authCodes, users, pushTokens,
                       vaultEntries, req, hist>>
        /\ IF answer.status = 429
           THEN /\ out' = rateLimited("challenge", answer)
                /\ UNCHANGED <<mfaChallenges, securityLogs>>
           ELSE /\ Len(mfaChallenges) < MaxMfaChallenges
                /\ mfaChallenges' =
                       createMfaChallenge(mfaChallenges, userId, now + expiresIn)
                /\ securityLogs' =
                       IF hasPushToken
                       THEN createSecurityLog(securityLogs, userId,
                                "MFA push notification sent for challenge")
                       ELSE securityLogs
                /\ out' = IF hasPushToken
                          THEN [op |-> "challenge", status |-> 200,
                                challengeCode |-> Len(mfaChallenges) + 1]
                          ELSE [op |-> "challenge", status |-> 404,
                                challengeCode |-> 0]

\* GET /mfa/challenge/:challengeCode, behind the guard
CheckMFAChallenge(challengeCode, userId) ==
    LET challenge == getMfaChallenge(mfaChallenges, challengeCode, now)
    IN  /\ out' = IF challenge = NoMfaChallenge \/ challenge.userId # userId
                  THEN [op |-> "check", status |-> 404,
                        challengeCode |-> challengeCode,
                        approved |-> FALSE, expired |-> FALSE]
                  ELSE [op |-> "check", status |-> 200,
                        challengeCode |-> challengeCode,
                        approved |-> challenge.isApproved,
                        expired |-> challenge.expiresAt < now]
        /\ UNCHANGED <<now, authSessions, deviceFingerprints, authChallenges,
                       webauthnCredentials, mfaChallenges, attempts, securityLogs, authCodes, req, hist,
                   users, pushTokens, vaultEntries>>

\* The proofs an approval request may carry: an approval token that verifies
\* or does not, else a challenge/solution pair that verifies for this
\* challenge and principal or does not, else nothing
ApprovalProofs == {"token", "badToken", "solution", "badSolution", "none"}

\* the code of the 400 answer the handler gives for the proof, or "next"
approvalProof(proof) ==
    IF proof = "badToken" THEN "INVALID_APPROVAL_TOKEN"
    ELSE IF proof = "badSolution" THEN "INVALID_CHALLENGE_SOLUTION"
    ELSE IF proof = "none" THEN "MISSING_APPROVAL_PROOF"
    ELSE "next"

\* POST /mfa/challenge/:challengeCode/approve: the limiter mfaApproval, the
\* guard (passed, for the principal userId), then the handler
ApproveMFAChallenge(key, challengeCode, userId, proof) ==
    LET answer == rateLimit(attempts[key], RateLimitConfigs.mfaApproval, now)
    IN  /\ attempts[key].count < MaxApprovalAttempts
        /\ Count(<<"approved", challengeCode>>) < MaxApprovals
        /\ attempts' = [attempts EXCEPT ![key] = answer.entry]
        /\ UNCHANGED <<now, authSessions, deviceFingerprints, authChallenges,
                       webauthnCredentials, authCodes, req,
                       users, pushTokens, vaultEntries>>
        /\ IF answer.status = 429
           THEN /\ out' = rateLimited("approve", answer)
                /\ UNCHANGED <<mfaChallenges, securityLogs, hist>>
           ELSE IF approvalProof(proof) # "next"
           THEN /\ out' = [op |-> "approve", status |-> 400,
                           challengeCode |-> challengeCode,
                           code |-> approvalProof(proof)]
                /\ UNCHANGED <<mfaChallenges, securityLogs, hist>>
           ELSE IF approveMFAChallenge(mfaChallenges, challengeCode, userId, now)
           THEN /\ mfaChallenges' = approveMfaChallenge(mfaChallenges, challengeCode, now)
                /\ securityLogs' = createSecurityLog(securityLogs,
                                       mfaChallenges[challengeCode].userId,
                                       "MFA challenge approved")
                /\ hist' = Recorded(<<"approved", challengeCode>>)
                /\ out' = [op |-> "approve", status |-> 200,
                           challengeCode |-> challengeCode, code |-> Null]
           ELSE /\ out' = [op |-> "approve", status |-> 400,
                           challengeCode |-> challengeCode,
                           code |-> "APPROVAL_FAILED"]
                /\ UNCHANGED <<mfaChallenges, securityLogs, hist>>

MfaAdvance == now < MaxTime /\ Advance(1)

\* A and B have registered their accounts; nothing else has happened
InitMfa ==
    /\ now = 0
    /\ authSessions = <<>>
    /\ deviceFingerprints = [f \in Fingerprints |-> NoDevice]
    /\ authChallenges = <<>>
    /\ webauthnCredentials = <<>>
    /\ mfaChallenges = <<>>
    /\ attempts = [k \in ClientKeys |-> NoEntry]
    /\ securityLogs = RegisteredLogs
    /\ users = RegisteredUsers
    /\ pushTokens = NoPushTokens
    /\ vaultEntries = <<>>
    /\ authCodes = <<>>
    /\ req = <<>>
    /\ out = NoOut
    /\ hist = <<>>

NextMfa ==
    \/ \E key \in ClientKeys, token \in {"t1", Undefined},
          platform \in {"iOS", "Linux", Undefined} :
            PushRegister(key, "A", token, platform)
    \/ \E key \in ClientKeys, userId \in Users, token \in {"t1", Undefined} :
            PushUnregister(key, userId, token)
    \/ \E key \in ClientKeys, expiresIn \in {1, MfaTTL} :
            SendMFAChallenge(key, "A", expiresIn)
    \/ \E challengeCode \in 1..MaxMfaChallenges, userId \in Users :
            CheckMFAChallenge(challengeCode, userId)
    \/ \E key \in ClientKeys, challengeCode \in 1..MaxMfaChallenges,
          userId \in Users, proof \in ApprovalProofs :
            ApproveMFAChallenge(key, challengeCode, userId, proof)
    \/ MfaAdvance

SpecMfa == InitMfa /\ [][NextMfa]_vars

-----------------------------------------------------------------------------
(* Claims on the MFA challenges *)

\* C3: no challenge code is approved more than once, and an approval that
\* succeeds is of a challenge that has not expired.
C3_ApprovedAtMostOnce ==
    /\ \A challengeCode \in 1..MaxMfaChallenges :
          Count(<<"approved", challengeCode>>) <= 1
    /\ (out.op = "approve" /\ out.status = 200)
          => mfaChallenges[out.challengeCode].expiresAt > now

-----------------------------------------------------------------------------
(* routes/auth behind and beside the Request Guard *)

\* A request to a protected route (GET /me) that carries token as its bearer
\* token: the guard answers 401 or lets it through to the handler
AuthenticateWith(token) ==
    LET verdict == authenticateToken(authSessions, token, now)
    IN  /\ out' = [op |-> "guard", token |-> token,
                   status |-> IF verdict = "next" THEN 200 ELSE 401,
                   code |-> verdict,
                   handlerRan |-> verdict = "next"]
        /\ UNCHANGED <<now, authSessions, deviceFingerprints, authChallenges,
                       webauthnCredentials, mfaChallenges, attempts, securityLogs, authCodes, req, hist,
                   users, pushTokens, vaultEntries>>

\* ... with no token, or with the access token a login issued
Authenticate(i, signed) ==
    /\ i <= Len(authSessions)
    /\ AuthenticateWith(BearerToken(i, signed))

\* POST /logout with token as the bearer token: the guard, then the handler
\* deactivates the session the token names.  hist notes the session ids that
\* a logout the guard let through has named.
LogoutWith(token) ==
    LET verdict == authenticateToken(authSessions, token, now)
    IN  /\ authSessions' =
               IF verdict = "next"
               THEN deactivateAuthSessionBySessionId(authSessions, token.sessionId)
               ELSE authSessions
        /\ securityLogs' =
               IF verdict = "next"
               THEN createSecurityLog(securityLogs, token.userId,
                                      "User logged out successfully")
               ELSE securityLogs
        /\ hist' = IF verdict = "next"
                   THEN Recorded(<<"logout", token.sessionId>>)
                   ELSE hist
        /\ out' = [op |-> "logout", token |-> token,
                   status |-> IF verdict = "next" THEN 200 ELSE 401,
                   code |-> verdict,
                   handlerRan |-> verdict = "next"]
        /\ UNCHANGED <<now, deviceFingerprints, authChallenges,
                       webauthnCredentials, mfaChallenges, attempts, authCodes, req,
                   users, pushTokens, vaultEntries>>

\* ... with no token, or with the access token a login issued
Logout(i, signed) ==
    /\ i <= Len(authSessions)
    /\ LogoutWith(BearerToken(i, signed))

\* middleware/auth requireLowRisk(maxRiskScore), after the guard has set
\* req.user from the token
requireLowRisk(token, maxRiskScore) ==
    IF token.riskScore > maxRiskScore THEN "HIGH_RISK_DETECTED" ELSE "next"

\* middleware/auth requireStrongAuth
requireStrongAuth(token) ==
    IF token.authMethod \notin {"webauthn", "biometric"}
    THEN "STRONG_AUTH_REQUIRED" ELSE "next"

\* what the guard and the middleware after it answer: 401 from the guard, 403
\* from the middleware, 200 for a request that reaches the handler
middlewareStatus(verdict, second) ==
    IF verdict # "next" THEN 401 ELSE IF second # "next" THEN 403 ELSE 200

VaultNames == {"n1"}

\* POST /api/vault: the guard, requireLowRisk(20), then the handler; bodyOk is
\* whether insertVaultEntrySchema accepts the body
VaultCreate(i, signed, bodyOk, name) ==
    LET token == BearerToken(i, signed)
        verdict == authenticateToken(authSessions, token, now)
        risk == requireLowRisk(token, 20)
        status == middlewareStatus(verdict, risk)
    IN  /\ i <= Len(authSessions)
        /\ UNCHANGED <<now, authSessions, deviceFingerprints, authChallenges,
                       webauthnCredentials, mfaChallenges, authCodes, attempts,
                       users, pushTokens, req, hist>>
        /\ IF status # 200
           THEN /\ out' = [op |-> "vault-create", token |-> token,
                           status |-> status,
                           code |-> IF verdict # "next" THEN verdict ELSE risk,
                           handlerRan |-> FALSE]
                /\ UNCHANGED <<vaultEntries, securityLogs>>
           ELSE IF ~bodyOk
           THEN /\ out' = [op |-> "vault-create", token |-> token,
                           status |-> 400, code |-> Null, handlerRan |-> TRUE]
                /\ UNCHANGED <<vaultEntries, securityLogs>>
           ELSE /\ Len(vaultEntries) < MaxVaultEntries
                /\ vaultEntries' = createVaultEntry(vaultEntries, token.userId, name)
                /\ securityLogs' = createSecurityLog(securityLogs, token.userId,
                                       "Vault entry created")
                /\ out' = [op |-> "vault-create", token |-> token,
                           status |-> 200, code |-> Null, handlerRan |-> TRUE]

\* PUT /api/vault/:id: the guard, requireLowRisk(25), then the handler, which
\* does not look at the owner of the entry
VaultUpdate(i, signed, id, bodyOk, name) ==
    LET token == BearerToken(i, signed)
        verdict == authenticateToken(authSessions, token, now)
        risk == requireLowRisk(token, 25)
        status == middlewareStatus(verdict, risk)
    IN  /\ i <= Len(authSessions)
        /\ UNCHANGED <<now, authSessions, deviceFingerprints, authChallenges,
                       webauthnCredentials, mfaChallenges, authCodes, attempts,
                       users, pushTokens, req, hist>>
        /\ IF status # 200
           THEN /\ out' = [op |-> "vault-update", token |-> token,
                           status |-> status,
                           code |-> IF verdict # "next" THEN verdict ELSE risk,
                           handlerRan |-> FALSE]
                /\ UNCHANGED <<vaultEntries, securityLogs>>
           ELSE IF ~bodyOk
           THEN /\ out' = [op |-> "vault-update", token |-> token,
                           status |-> 400, code |-> Null, handlerRan |-> TRUE]
                /\ UNCHANGED <<vaultEntries, securityLogs>>
           ELSE IF getVaultEntry(vaultEntries, id) = NoVaultEntry
           THEN /\ out' = [op |-> "vault-update", token |-> token,
                           status |-> 404, code |-> Null, handlerRan |-> TRUE]
                /\ UNCHANGED <<vaultEntries, securityLogs>>
           ELSE /\ vaultEntries' = updateVaultEntry(vaultEntries, id, name)
                /\ securityLogs' = createSecurityLog(securityLogs, token.userId,
                                       "Vault entry updated")
                /\ out' = [op |-> "vault-update", token |-> token,
                           status |-> 200, code |-> Null, handlerRan |-> TRUE]

\* DELETE /api/vault/:id: the guard, requireStrongAuth, then the handler, which
\* does not look at the owner of the entry
VaultDelete(i, signed, id) ==
    LET token == BearerToken(i, signed)
        verdict == authenticateToken(authSessions, token, now)
        strong == requireStrongAuth(token)
        status == middlewareStatus(verdict, strong)
    IN  /\ i <= Len(authSessions)
        /\ UNCHANGED <<now, authSessions, deviceFingerprints, authChallenges,
                       webauthnCredentials, mfaChallenges, authCodes, attempts,
                       users, pushTokens, req, hist>>
        /\ IF status # 200
           THEN /\ out' = [op |-> "vault-delete", token |-> token,
                           status |-> status,
                           code |-> IF verdict # "next" THEN verdict ELSE strong,
                           handlerRan |-> FALSE]
                /\ UNCHANGED <<vaultEntries, securityLogs>>
           ELSE IF getVaultEntry(vaultEntries, id) = NoVaultEntry
           THEN /\ out' = [op |-> "vault-delete", token |-> token,
                           status |-> 404, code |-> Null, handlerRan |-> TRUE]
                /\ UNCHANGED <<vaultEntries, securityLogs>>
           ELSE /\ vaultEntries' = deleteVaultEntry(vaultEntries, id)
                /\ securityLogs' = createSecurityLog(securityLogs, token.userId,
                                       "Vault entry deleted")
                /\ out' = [op |-> "vault-delete", token |-> token,
                           status |-> 200, code |-> Null, handlerRan |-> TRUE]

\* POST /refresh. valid notes whether an active, unexpired session held the
\* refresh token when the request arrived.
Refresh(refreshToken) ==
    LET valid == refreshable(authSessions, refreshToken, now)
        sessions == getAuthSessionsByUser(authSessions, "")
        found == \E i \in 1..Len(sessions) :
                    sessions[i].refreshToken = refreshToken /\ sessions[i].isActive
        session == sessions[CHOOSE i \in 1..Len(sessions) :
                      /\ sessions[i].refreshToken = refreshToken
                      /\ sessions[i].isActive
                      /\ \A j \in 1..(i - 1) :
                            ~(sessions[j].refreshToken = refreshToken
                              /\ sessions[j].isActive)]
        n == Len(authSessions) + 1
        accessToken == generateAccessToken(n, session.userId, session.authMethod,
                           session.riskScore, session.deviceFingerprint, now)
        newRefreshToken == generateRefreshToken(n)
    IN  /\ UNCHANGED <<now, deviceFingerprints, authChallenges,
                       webauthnCredentials, mfaChallenges, attempts, authCodes, req,
                   users, pushTokens, vaultEntries>>
        /\ IF refreshToken = NoRefreshToken
           THEN /\ out' = [op |-> "refresh", status |-> 400,
                           refreshToken |-> refreshToken, valid |-> valid]
                /\ UNCHANGED <<authSessions, securityLogs, hist>>
           ELSE IF ~found \/ session.expiresAt < now
           THEN /\ out' = [op |-> "refresh", status |-> 401,
                           refreshToken |-> refreshToken, valid |-> valid]
                /\ UNCHANGED <<authSessions, securityLogs, hist>>
           ELSE IF getUser(users, session.userId) = NoUser
           THEN /\ out' = [op |-> "refresh", status |-> 404,
                           refreshToken |-> refreshToken, valid |-> valid]
                /\ UNCHANGED <<authSessions, securityLogs, hist>>
           ELSE /\ Len(authSessions) < MaxSessions
                /\ authSessions' = createAuthSession(
                       deactivateAuthSessionBySessionId(authSessions, session.id),
                       session.userId, accessToken, newRefreshToken,
                       [fingerprint |-> session.deviceFingerprint,
                        ipAddress |-> session.ipAddress],
                       session.authMethod, session.riskScore,
                       now + SessionTTL, now)
                /\ securityLogs' = createSecurityLog(securityLogs, session.userId,
                                       "Token refreshed successfully")
                /\ hist' = Recorded(<<"refreshed", refreshToken>>)
                /\ out' = [op |-> "refresh", status |-> 200,
                           refreshToken |-> refreshToken, valid |-> valid]

SessionAdvance(d) == now < MaxTime /\ Advance(d)

\* A and B have registered their accounts; nothing else has happened
InitSession ==
    /\ now = 0
    /\ authSessions = <<>>
    /\ deviceFingerprints = [f \in Fingerprints |-> NoDevice]
    /\ authChallenges = <<>>
    /\ webauthnCredentials = <<>>
    /\ mfaChallenges = <<>>
    /\ attempts = <<>>
    /\ securityLogs = RegisteredLogs
    /\ users = RegisteredUsers
    /\ pushTokens = NoPushTokens
    /\ vaultEntries = <<>>
    /\ authCodes = <<>>
    /\ req = [w \in Workers |-> Idle]
    /\ out = NoOut
    /\ hist = <<>>

NextSession ==
    \/ \E w \in Workers, email \in Users \cup {"nobody"},
          hasPassword \in BOOLEAN, d \in WebDevices :
            LoginStart(w, email, hasPassword, d)
    \/ \E w \in Workers, isValidPassword \in CompareAnswers :
            LoginFinish(w, isValidPassword)
    \/ \E i \in 0..MaxSessions, signed \in BOOLEAN : Authenticate(i, signed)
    \/ \E i \in 0..MaxSessions, signed \in BOOLEAN : Logout(i, signed)
    \/ \E refreshToken \in RefreshTokens : Refresh(refreshToken)
    \/ \E d \in {1, SessionTTL} : SessionAdvance(d)

SpecSession == InitSession /\ [][NextSession]_vars

-----------------------------------------------------------------------------
(* The Request Guard and POST /logout on every token JWTService can sign.  The
   login routes sign a payload whose sessionId is a fresh hex string, which is
   the id of no session record, so the guard refuses every token they issue.
   The guard itself is written for a token whose sessionId is the id of a
   session record ("session.id should equal sessionId for proper lookup",
   routes/auth): here a request may carry such a token too. *)

\* JWTService.generateAccessToken at clock t on a payload for the principal
\* userId whose sessionId is the id of the i-th session record and whose other
\* values are that session's
SessionBoundToken(i, userId, t) ==
    [generateAccessToken(0, userId, authSessions[i].authMethod,
                         authSessions[i].riskScore,
                         authSessions[i].deviceFingerprint, t)
        EXCEPT !.sessionId = authSessions[i].id]

\* the tokens a request presents with regard to the i-th session: the access
\* token its login issued; a token bound to the record, signed when the
\* session was created, for the session's principal or for the other one; a
\* token bound to the record and signed just now
TokenKinds == {"issued", "bound", "foreign", "late"}

PresentedToken(i, kind, signed) ==
    IF i = 0 THEN NoToken
    ELSE LET session == authSessions[i]
             other == CHOOSE u \in Users : u # session.userId
             token == CASE kind = "issued" -> session.sessionToken
                        [] kind = "bound" ->
                              SessionBoundToken(i, session.userId, session.createdAt)
                        [] kind = "foreign" ->
                              SessionBoundToken(i, other, session.createdAt)
                        [] OTHER -> SessionBoundToken(i, session.userId, now)
         IN  [token EXCEPT !.signed = signed]

GuardAuthenticate(i, kind, signed) ==
    /\ i <= Len(authSessions)
    /\ AuthenticateWith(PresentedToken(i, kind, signed))

GuardLogout(i, kind, signed) ==
    /\ i <= Len(authSessions)
    /\ LogoutWith(PresentedToken(i, kind, signed))

NextGuard ==
    \/ \E email \in Users, d \in WebDevices : LoginStart(1, email, TRUE, d)
    \/ LoginFinish(1, "valid")
    \/ \E i \in 0..MaxSessions, kind \in TokenKinds, signed \in BOOLEAN :
            GuardAuthenticate(i, kind, signed)
    \/ \E i \in 0..MaxSessions, kind \in TokenKinds, signed \in BOOLEAN :
            GuardLogout(i, kind, signed)
    \/ \E d \in {1, SessionTTL} : SessionAdvance(d)

SpecGuard == InitSession /\ [][NextGuard]_vars

-----------------------------------------------------------------------------
(* The accounts and the vault: registration, password reset and login of the
   auth router, and the vault routes behind the guard *)

\* the stores of a server that has just started: no account yet
InitAccount == EmptyStores

NextAccount ==
    \/ \E w \in Workers, email \in {"A", NewUser, Undefined},
          hasPassword \in BOOLEAN, d \in WebDevices :
            LoginStart(w, email, hasPassword, d)
    \/ \E w \in Workers, isValidPassword \in CompareAnswers :
            LoginFinish(w, isValidPassword)
    \/ \E w \in Workers, email \in {"A", Undefined},
          wellFormed \in BOOLEAN, passwordLength \in PasswordLengths :
            RegisterStart(w, email, wellFormed, passwordLength)
    \/ \E w \in Workers, hashed \in BOOLEAN : RegisterFinish(w, hashed)
    \/ \E email \in {"A", NewUser, Undefined}, wellFormed \in BOOLEAN :
            PasswordResetRequest(email, wellFormed)
    \/ \E hasToken \in BOOLEAN, passwordLength \in PasswordLengths :
            PasswordResetComplete(hasToken, passwordLength)
    \/ \E i \in 0..MaxSessions, signed \in BOOLEAN, bodyOk \in BOOLEAN,
          name \in VaultNames :
            VaultCreate(i, signed, bodyOk, name)
    \/ \E i \in 0..MaxSessions, signed \in BOOLEAN, id \in 1..MaxVaultEntries,
          bodyOk \in BOOLEAN, name \in VaultNames :
            VaultUpdate(i, signed, id, bodyOk, name)
    \/ \E i \in 0..MaxSessions, signed \in BOOLEAN, id \in 1..MaxVaultEntries :
            VaultDelete(i, signed, id)

SpecAccount == InitAccount /\ [][NextAccount]_vars

-----------------------------------------------------------------------------
(* Claims on the sessions *)

\* C5: the guard lets a request through only when the token verifies and an
\* active, unexpired session of the token's principal has the token's session
\* id; otherwise the answer is 401 and the handler has not run.  (A logout
\* that was let through has since ended the session it was let through for.)
C5_GuardLetsThroughOnlyLiveSessions ==
    out.op \in {"guard", "logout"} =>
        IF out.handlerRan
        THEN /\ out.status = 200
             /\ out.token # NoToken
             /\ verifyAccessToken(out.token, now)
             /\ \E i \in 1..Len(authSessions) :
                   /\ authSessions[i].id = out.token.sessionId
                   /\ authSessions[i].userId = out.token.userId
                   /\ ~(authSessions[i].expiresAt < now)
                   /\ authSessions[i].isActive \/ out.op = "logout"
        ELSE out.status = 401

\* the guard has let a request through: its token verifies and names an
\* active, unexpired session of the token's principal, while the other session
\* in the store has been ended
C5_Witness ==
    /\ out.op = "guard"
    /\ out.handlerRan
    /\ out.status = 200
    /\ verifyAccessToken(out.token, now)
    /\ Len(authSessions) = 2
    /\ \E i, j \in 1..2 :
          /\ authSessions[i].id = out.token.sessionId
          /\ authSessions[i].isActive
          /\ ~authSessions[j].isActive

\* C6: a refresh that presents the refresh token of an active, unexpired
\* session is answered 200, leaves no active session holding that refresh
\* token, and the session it creates is active and has the old session's
\* principal, fingerprint, method and risk score.
C6_RefreshRotatesSession ==
    (out.op = "refresh" /\ out.valid) =>
        /\ out.status = 200
        /\ \E i \in 1..(Len(authSessions) - 1) :
              LET old == authSessions[i]
                  new == authSessions[Len(authSessions)]
              IN  /\ old.refreshToken = out.refreshToken
                  /\ ~old.isActive
                  /\ new.isActive
                  /\ new.refreshToken # old.refreshToken
                  /\ new.sessionToken # old.sessionToken
                  /\ new.userId = old.userId
                  /\ new.deviceFingerprint = old.deviceFingerprint
                  /\ new.authMethod = old.authMethod
                  /\ new.riskScore = old.riskScore

\* C7: once a refresh has been made with the refresh token of a live session,
\* that session is inactive, and the guard refuses its access token from then on.
C7_RefreshDeactivatesPrior ==
    /\ (out.op = "refresh" /\ out.valid) =>
          \A i \in 1..Len(authSessions) :
              authSessions[i].refreshToken = out.refreshToken
                  => ~authSessions[i].isActive
    /\ out.op = "guard" =>
          \A i \in 1..Len(authSessions) :
              (/\ authSessions[i].sessionToken = out.token
               /\ Count(<<"refreshed", authSessions[i].refreshToken>>) >= 1)
                  => out.status = 401

\* C16: a password login with correct credentials from a fingerprint that has
\* no stored device record is scored with a risk of at least 60 and answered
\* with mfa_required: requiresMfa is true in the response.
C16_UnknownDevicePasswordLoginStepsUp ==
    [][(/\ out'.op = "login"
        /\ out'.status = 200
        /\ Len(authSessions') = Len(authSessions) + 1
        /\ deviceFingerprints[out'.accessToken.deviceFingerprint] = NoDevice)
          => (out'.riskScore >= 60 /\ out'.requiresMfa)]_vars

-----------------------------------------------------------------------------
(* RiskEngine.assessLoginRisk as a function: its inputs drawn, its catch
   branches taken when a read of the store throws *)

\* the credential methods the policy tells apart
CredentialMethods == AuthMethods \cup {"biometric"}

\* the sub-scores that read the store, each within its own try
SubScores == {"device", "behavior", "location"}

\* What may throw during one assessment: a store read of any of the
\* sub-scores (getDeviceFingerprints is read for the device and for the
\* location score: a store that throws on it fails both), and ("assess") a
\* statement of assessLoginRisk outside the sub-scores.  The one such statement
\* that reads an input is deviceData.ipAddress, which throws when the caller
\* passes no device description; analyzeRisk has then thrown on
\* deviceData.fingerprint inside its own try, so "assess" comes with "device".
Failures ==
    {failed \in SUBSET (SubScores \cup {"assess"}) :
        "assess" \in failed => "device" \in failed}

\* a factor that the answer's factor list does not hold
NoFactor == 0 - 1

\* analyzeRisk with its catch: return 70
analyzeRiskTry(devs, deviceData, userId, failed) ==
    IF "device" \in failed THEN 70 ELSE analyzeRisk(devs, deviceData, userId)

\* analyzeBehaviorRisk with its catch: return 40
analyzeBehaviorRiskTry(sessions, t, userId, failed) ==
    IF "behavior" \in failed THEN 40 ELSE analyzeBehaviorRisk(sessions, t, userId)

\* analyzeLocationRisk with its catch: return 50
analyzeLocationRiskTry(devs, userId, currentIp, failed) ==
    IF "location" \in failed THEN 50 ELSE analyzeLocationRisk(devs, userId, currentIp)

\* the factors, the weighted sum and the policy of one call at clock t
assessLoginRiskTry(devs, sessions, t, userId, deviceData, authMethod, failed) ==
    IF "assess" \in failed
    THEN [overallRisk |-> 80,
          deviceRisk |-> NoFactor,
          behaviorRisk |-> 80,
          timeRisk |-> NoFactor,
          locationRisk |-> NoFactor,
          recommendation |-> "mfa_required",
          requiresAdditionalAuth |-> TRUE]
    ELSE LET deviceRisk == analyzeRiskTry(devs, deviceData, userId, failed)
             behaviorRisk == analyzeBehaviorRiskTry(sessions, t, userId, failed)
             timeRisk == analyzeTimeRisk(hourOf(t), dayOfWeekOf(t))
             locationRisk == analyzeLocationRiskTry(devs, userId, deviceData.ipAddress, failed)
             overallRisk == weightedRisk(deviceRisk, behaviorRisk, timeRisk, locationRisk)
             recommendation == recommend(overallRisk, authMethod)
         IN  [overallRisk |-> overallRisk,
              deviceRisk |-> deviceRisk,
              behaviorRisk |-> behaviorRisk,
              timeRisk |-> timeRisk,
              locationRisk |-> locationRisk,
              recommendation |-> recommendation,
              requiresAdditionalAuth |-> recommendation # "allow"]

\* Device records the store may hold for a fingerprint: none, the caller's
\* own trusted device after many logins, another principal's new device
StoredDevices(d) ==
    { NoDevice,
      [userId |-> "A", ipAddress |-> d.ipAddress, riskScore |-> 10,
       loginCount |-> 11, isTrusted |-> FALSE, firstSeen |-> 0],
      [userId |-> "B", ipAddress |-> d.ipAddress, riskScore |-> 60,
       loginCount |-> 0, isTrusted |-> FALSE, firstSeen |-> 0] }

DeviceOf(f) == CHOOSE d \in Devices : d.fingerprint = f

\* Devices the store has no record of, as a direct caller of the engine may
\* describe them: an operating system whose name holds a trusted name, a
\* browser name in capitals, and a description whose browser is null and whose
\* platform is the empty string
UnrecordedDevices ==
    { [fingerprint |-> "f4", ipAddress |-> <<2, 1>>, browser |-> "UNKNOWN",
       platform |-> "Windows Phone"],
      [fingerprint |-> "f5", ipAddress |-> <<1, 1>>, browser |-> Null,
       platform |-> ""] }

EngineDevices == Devices \cup UnrecordedDevices

\* the callers of the engine: a principal, and the empty userId
EngineUsers == {"A", ""}

EngineStores ==
    {devs \in [{d.fingerprint : d \in EngineDevices} ->
                  UNION {StoredDevices(d) : d \in Devices}] :
        \A f \in DOMAIN devs :
            IF f \in Fingerprints
            THEN devs[f] \in StoredDevices(DeviceOf(f))
            ELSE devs[f] = NoDevice}

\* Session histories of the caller: none, one WebAuthn login, a password login
\* followed by a WebAuthn login
EngineSession(sessions, authMethod) ==
    createAuthSession(sessions, "A", generateAccessToken(Len(sessions) + 1, "A", authMethod, 10, "f1", 0), generateRefreshToken(Len(sessions) + 1), DeviceOf("f1"), authMethod, 10, SessionTTL, 0)

EngineHistories ==
    { <<>>,
      EngineSession(<<>>, "webauthn"),
      EngineSession(EngineSession(<<>>, "password"), "webauthn") }

InitEngine ==
    /\ now \in StartTimes
    /\ authSessions \in EngineHistories
    /\ deviceFingerprints \in EngineStores
    /\ authChallenges = <<>>
    /\ webauthnCredentials = <<>>
    /\ mfaChallenges = <<>>
    /\ attempts = <<>>
    /\ securityLogs = RegisteredLogs
    /\ users = RegisteredUsers
    /\ pushTokens = NoPushTokens
    /\ vaultEntries = <<>>
    /\ authCodes = <<>>
    /\ req \in [userId : EngineUsers, deviceData : EngineDevices,
                authMethod : CredentialMethods, failed : Failures]
    /\ out = NoOut
    /\ hist = <<>>

\* A caller runs analyzeRisk and assessLoginRisk on the request; hist keeps
\* the answer of the first call made on these inputs
EngineAssess ==
    LET result == assessLoginRiskTry(deviceFingerprints, authSessions, now, req.userId, req.deviceData, req.authMethod, req.failed)
    IN  /\ out' = [op |-> "assess",
                   deviceRisk |-> analyzeRiskTry(deviceFingerprints, req.deviceData, req.userId, req.failed),
                   result |-> result]
        /\ hist' = IF hist = <<>> THEN <<result>> ELSE hist
        /\ UNCHANGED <<now, authSessions, deviceFingerprints, authChallenges,
                       webauthnCredentials, mfaChallenges, attempts, securityLogs, authCodes, req,
                   users, pushTokens, vaultEntries>>

\* the clock moves between two calls; the stores do not
EngineAdvance(d) ==
    /\ now \in StartTimes
    /\ now' = now + d
    /\ UNCHANGED <<authSessions, deviceFingerprints, authChallenges,
                   webauthnCredentials, mfaChallenges, attempts, securityLogs, authCodes, req, out, hist,
                   users, pushTokens, vaultEntries>>

NextEngine ==
    \/ EngineAssess
    \/ \E d \in {3 * 60, SevenDays} : EngineAdvance(d)

SpecEngine == InitEngine /\ [][NextEngine]_vars

\* C11: every score is an integer of 0..100: the overall risk of
\* assessLoginRisk and the device risk of analyzeRisk, on every device record,
\* session history and credential method, the catch branches included.
C11_ScoresWithinRange ==
    out.op = "assess" =>
        /\ out.result.overallRisk \in 0..100
        /\ out.deviceRisk \in 0..100

\* an assessment of another principal's device from an untrusted platform
C11_Witness ==
    /\ out.op = "assess"
    /\ req.failed = {}
    /\ out.deviceRisk >= 80
    /\ out.result.overallRisk >= 60

\* C12: assessLoginRisk is a function of its inputs: two calls with the same
\* principal, device signals and credential method, made while the stored
\* device and session history are the same, return the same score and the
\* same recommendation.
C12_SameInputsSameAssessment ==
    (out.op = "assess" /\ hist # <<>>) =>
        /\ out.result.overallRisk = hist[1].overallRisk
        /\ out.result.recommendation = hist[1].recommendation

\* C15: assessLoginRisk never raises; when a read of the store made for a
\* sub-score (device, behaviour, location) fails, the call still returns, the
\* failed factor has its penalized value, and the recommendation is not allow,
\* for every credential method.
C15_FailedReadIsConservative ==
    (out.op = "assess" /\ req.failed # {} /\ req.failed \subseteq SubScores) =>
        /\ "device" \in req.failed => out.result.deviceRisk = 70
        /\ "behavior" \in req.failed => out.result.behaviorRisk = 40
        /\ "location" \in req.failed => out.result.locationRisk = 50
        /\ out.result.recommendation # "allow"

-----------------------------------------------------------------------------
(* The policy of assessLoginRisk as a function of the score *)

RiskScores == 0..100

InitPolicy ==
    /\ now = 0
    /\ authSessions = <<>>
    /\ deviceFingerprints = [f \in Fingerprints |-> NoDevice]
    /\ authChallenges = <<>>
    /\ webauthnCredentials = <<>>
    /\ mfaChallenges = <<>>
    /\ attempts = <<>>
    /\ securityLogs = RegisteredLogs
    /\ users = RegisteredUsers
    /\ pushTokens = NoPushTokens
    /\ vaultEntries = <<>>
    /\ authCodes = <<>>
    /\ req \in [overallRisk : RiskScores]
    /\ out = NoOut
    /\ hist = <<>>

\* the recommendation computed from the score, for each credential method
PolicyRecommend ==
    /\ out.op = "none"
    /\ out' = [op |-> "recommend",
               overallRisk |-> req.overallRisk,
               recommendation |-> [m \in CredentialMethods |-> recommend(req.overallRisk, m)]]
    /\ UNCHANGED <<now, authSessions, deviceFingerprints, authChallenges,
                   webauthnCredentials, mfaChallenges, attempts, securityLogs, authCodes, req, hist,
                   users, pushTokens, vaultEntries>>

NextPolicy == PolicyRecommend

SpecPolicy == InitPolicy /\ [][NextPolicy]_vars

\* C13: for the password method the recommendation is block when the score is
\* 90 or more, mfa_required when it is between 40 and 89, allow when it is
\* below 40.
C13_PasswordPolicy ==
    out.op = "recommend" =>
        out.recommendation["password"] =
            IF out.overallRisk >= 90 THEN "block"
            ELSE IF out.overallRisk >= 40 THEN "mfa_required"
            ELSE "allow"

\* C14: for webauthn and biometric the recommendation is block when the score
\* is 90 or more, otherwise allow when the score less 20 is below 40, and
\* mfa_required otherwise; the discount never turns a block into an allow, and
\* the two methods get the same recommendation at every score.
C14_StrongMethodPolicy ==
    out.op = "recommend" =>
        /\ \A m \in {"webauthn", "biometric"} :
              out.recommendation[m] =
                  IF out.overallRisk >= 90 THEN "block"
                  ELSE IF out.overallRisk - 20 < 40 THEN "allow"
                  ELSE "mfa_required"
        /\ out.recommendation["webauthn"] = out.recommendation["biometric"]

\* at score 59 the discount clears both strong methods to allow, where the
\* federated method is asked to step up
C14_Witness ==
    /\ out.op = "recommend"
    /\ out.overallRisk = 59
    /\ out.recommendation["biometric"] = "allow"
    /\ out.recommendation["webauthn"] = "allow"
    /\ out.recommendation["oidc"] = "mfa_required"

-----------------------------------------------------------------------------
(* middleware/rateLimiter: one limiter configuration at a time, and what it
   admits *)

RateHorizon == 6
MaxRejected == 2

RECURSIVE SumOver(_, _, _)
SumOver(f, a, b) == IF a > b THEN 0 ELSE f[a] + SumOver(f, a + 1, b)

\* the requests of key that were admitted at the clock times a..b
admitted(key, a, b) == SumOver(hist[key], Max(a, 0), Min(b, RateHorizon))

\* req is the configuration of the limiter the clients call; hist counts the
\* admitted requests by key and clock time
InitRate ==
    /\ now = 0
    /\ authSessions = <<>>
    /\ deviceFingerprints = [f \in Fingerprints |-> NoDevice]
    /\ authChallenges = <<>>
    /\ webauthnCredentials = <<>>
    /\ mfaChallenges = <<>>
    /\ authCodes = <<>>
    /\ attempts = [k \in ClientKeys |-> NoEntry]
    /\ securityLogs = RegisteredLogs
    /\ users = RegisteredUsers
    /\ pushTokens = NoPushTokens
    /\ vaultEntries = <<>>
    /\ req \in {RateLimitConfigs[c] : c \in DOMAIN RateLimitConfigs}
    /\ out = NoOut
    /\ hist = [k \in ClientKeys |-> [t \in 0..RateHorizon |-> 0]]

\* one request of the client key through the limiter
RateLimit(key) ==
    LET answer == rateLimit(attempts[key], req, now)
    IN  /\ attempts[key].count < req.maxAttempts + MaxRejected
        /\ attempts' = [attempts EXCEPT ![key] = answer.entry]
        /\ hist' = IF answer.status = 200
                   THEN [hist EXCEPT ![key][now] = @ + 1]
                   ELSE hist
        /\ out' = [op |-> "rate", key |-> key, before |-> attempts[key],
                   admittedBefore |-> admitted(key, attempts[key].firstAttempt, now),
                   status |-> answer.status, retryAfter |-> answer.retryAfter]
        /\ UNCHANGED <<now, authSessions, deviceFingerprints, authChallenges,
                       webauthnCredentials, mfaChallenges, authCodes,
                       securityLogs, req,
                   users, pushTokens, vaultEntries>>

\* The clock moves on by a minute; hist forgets what was admitted longer ago
\* than a window before the new time
RateAdvance ==
    /\ now < RateHorizon
    /\ now' = now + 1
    /\ out' = NoOut
    /\ hist' = [k \in ClientKeys |-> [t \in 0..RateHorizon |->
                    IF t < now' - req.windowMs THEN 0 ELSE hist[k][t]]]
    /\ UNCHANGED <<authSessions, deviceFingerprints, authChallenges,
                   webauthnCredentials, mfaChallenges, authCodes, attempts, securityLogs,
                   req,
                   users, pushTokens, vaultEntries>>

NextRate ==
    \/ \E key \in ClientKeys : RateLimit(key)
    \/ RateAdvance

SpecRate == InitRate /\ [][NextRate]_vars

\* C19: for every configuration, once a client key has had maxAttempts
\* attempts admitted inside one window, its next attempt in that window is
\* rejected with 429 and a retryAfter equal to the time remaining until the
\* window ends.
C19_NextAttemptRejectedWithRemainingWindow ==
    (/\ out.op = "rate"
     /\ out.before # NoEntry
     /\ now - out.before.firstAttempt <= req.windowMs
     /\ out.admittedBefore >= req.maxAttempts) =>
        /\ out.status = 429
        /\ out.retryAfter =
              (out.before.firstAttempt + req.windowMs - now) * SecondsPerMinute

\* C20: the limiter enforces a sliding window: for every key and every
\* interval of the window's length, no more than maxAttempts requests are
\* admitted; and the count of a key is the number of attempts made in its
\* window, none lost.
C20_SlidingWindow ==
    \A key \in ClientKeys :
        /\ \A a \in 0..RateHorizon :
              admitted(key, a, a + req.windowMs - 1) <= req.maxAttempts
        /\ attempts[key] # NoEntry =>
              attempts[key].count >=
                  admitted(key, attempts[key].firstAttempt, attempts[key].lastAttempt)

-----------------------------------------------------------------------------
(* MFASecurityService: the signed approval token *)

\* TOKEN_VALIDITY_MS, in minutes
ApprovalTokenTTL == 5

\* generateHMAC: createHmac('sha256', HMAC_SECRET) over the payload string.
\* The digest is a function of the key and of the string, and only the holder
\* of the key can make it.
generateHMAC(payloadString) == [key |-> "HMAC_SECRET", payload |-> payloadString]

\* generateApprovalToken at time t: base64(JSON(payload)) + '.' + signature,
\* kept as the two parts it splits into
generateApprovalToken(challengeCode, userId, deviceFingerprint, t) ==
    LET payload == [challengeCode |-> challengeCode, userId |-> userId,
                    deviceFingerprint |-> deviceFingerprint, timestamp |-> t]
    IN  [parts |-> 2, payload |-> payload, signature |-> generateHMAC(payload)]

\* verifyApprovalToken(token, expectedChallengeCode, expectedUserId) at time t
verifyApprovalToken(token, expectedChallengeCode, expectedUserId, t) ==
    IF token.parts # 2
    THEN [valid |-> FALSE, error |-> "Invalid token format"]
    ELSE IF token.signature # generateHMAC(token.payload)
    THEN [valid |-> FALSE, error |-> "Invalid signature"]
    ELSE IF t - token.payload.timestamp > ApprovalTokenTTL
    THEN [valid |-> FALSE, error |-> "Token expired"]
    ELSE IF token.payload.challengeCode # expectedChallengeCode
    THEN [valid |-> FALSE, error |-> "Challenge code mismatch"]
    ELSE IF token.payload.userId # expectedUserId
    THEN [valid |-> FALSE, error |-> "User ID mismatch"]
    ELSE [valid |-> TRUE, error |-> Null]

\* The tokens a client can send: one the service issued; one with a third
\* part; one signed without the secret; one whose payload was altered (its
\* challenge code swapped) after the service signed it
ChallengeCodes == 1..MaxMfaChallenges
IssueTimes == {0, 1}
ApprovalTimes == {1, 5, 6, 7}

IssuedApprovalTokens ==
    {generateApprovalToken(c, u, f, t) :
        c \in ChallengeCodes, u \in Users, f \in Fingerprints, t \in IssueTimes}

ApprovalTokens ==
    IssuedApprovalTokens
    \cup {[tk EXCEPT !.parts = 3] : tk \in IssuedApprovalTokens}
    \cup {[tk EXCEPT !.signature.key = "guess"] : tk \in IssuedApprovalTokens}
    \cup {[tk EXCEPT !.payload.challengeCode = 3 - @] : tk \in IssuedApprovalTokens}

\* The approval request: the token in the body, the challenge code of the
\* path, the principal of the bearer token, and the fingerprint
\* generateFingerprint derives from the request
InitApproval ==
    /\ now \in ApprovalTimes
    /\ authSessions = <<>>
    /\ deviceFingerprints = [f \in Fingerprints |-> NoDevice]
    /\ authChallenges = <<>>
    /\ webauthnCredentials = <<>>
    /\ mfaChallenges = <<>>
    /\ attempts = <<>>
    /\ securityLogs = RegisteredLogs
    /\ users = RegisteredUsers
    /\ pushTokens = NoPushTokens
    /\ vaultEntries = <<>>
    /\ authCodes = <<>>
    /\ req \in [approvalToken : ApprovalTokens,
                challengeCode : ChallengeCodes,
                userId : Users,
                deviceFingerprint : Fingerprints]
    /\ out = NoOut
    /\ hist = <<>>

\* POST /mfa/challenge/:challengeCode/approve with an approvalToken, up to
\* approvalVerified: the handler computes the request's fingerprint and calls
\* verifyApprovalToken(approvalToken, challengeCode, userId)
VerifyApproval ==
    /\ out = NoOut
    /\ out' = [op |-> "verify-approval",
               result |-> verifyApprovalToken(req.approvalToken,
                              req.challengeCode, req.userId, now)]
    /\ UNCHANGED <<now, authSessions, deviceFingerprints, authChallenges,
                   webauthnCredentials, mfaChallenges, attempts, securityLogs, authCodes, req, hist,
                   users, pushTokens, vaultEntries>>

NextApproval == VerifyApproval

SpecApproval == InitApproval /\ [][NextApproval]_vars

-----------------------------------------------------------------------------
(* The block test of POST /webauthn/authenticate/complete.  The weighted score
   of the repository's engine is at most 83 and its catch answers 80, so with
   that engine the route never sees the recommendation block.  Here the
   assessment is an input of the route: the engine's policy on a score of the
   range the RiskAssessment type documents, 0 to 100. *)

\* scores on both sides of the policy's thresholds 40, 60 and 90
AssessedScores == {20, 62, 89, 90, 100}

\* a RiskAssessment with this overall risk: the recommendation is the policy's
\* for the credential method; the factor list is not read by the route
riskAssessmentOf(overallRisk, authMethod) ==
    [overallRisk |-> overallRisk,
     deviceRisk |-> NoFactor,
     behaviorRisk |-> NoFactor,
     timeRisk |-> NoFactor,
     locationRisk |-> NoFactor,
     recommendation |-> recommend(overallRisk, authMethod),
     requiresAdditionalAuth |-> recommend(overallRisk, authMethod) # "allow"]

\* the route from the answer of verifyAuthentication on, as AuthGrant, with
\* the assessment the engine answers given
GrantAssessed(w, overallRisk) ==
    LET r == req[w]
    IN  /\ req[w] # Idle
        /\ req[w].pc = "grant"
        /\ req' = [req EXCEPT ![w] = Idle]
        /\ UNCHANGED <<now, authChallenges, webauthnCredentials, mfaChallenges,
                       attempts, authCodes, hist,
                       users, pushTokens, vaultEntries>>
        /\ IF getUser(users, r.userId) = NoUser
           THEN /\ out' = [op |-> "webauthn", status |-> 404,
                           code |-> "USER_NOT_FOUND"]
                /\ UNCHANGED <<authSessions, deviceFingerprints, securityLogs>>
           ELSE webauthnGrantOn(riskAssessmentOf(overallRisk, "webauthn"),
                                recordDeviceLogin(deviceFingerprints, r.device, r.userId),
                                r.userId, r.device, r.credentialId)

NextGrant ==
    \/ AuthBegin(Undefined)
    \/ \E w \in Workers, challenge \in 1..MaxChallenges,
          credentialId \in CredentialIds, d \in WebDevices :
            AuthStart(w, Undefined, challenge, credentialId, 1, d)
    \/ \E w \in Workers, signatureOk \in BOOLEAN : AuthFinish(w, signatureOk)
    \/ \E w \in Workers, overallRisk \in AssessedScores :
            GrantAssessed(w, overallRisk)
    \/ \E w \in Workers, d \in WebDevices : LoginStart(w, "A", TRUE, d)
    \/ \E w \in Workers, isValidPassword \in CompareAnswers :
            LoginFinish(w, isValidPassword)

SpecGrant == InitWebAuthn /\ [][NextGrant]_vars

-----------------------------------------------------------------------------
(* Claims on expiry, session records, logging and device records *)

\* C21: no Auth Challenge, authorization code or MFA challenge is consumed or
\* approved at a time later than its expiry time, whether or not any sweep of
\* expired records has run (the model has no sweep).
C21_NothingConsumedAfterExpiry ==
    [][/\ \A c \in 1..Len(authChallenges) :
            Count(<<"verified", c>>)' > Count(<<"verified", c>>)
                => ~(authChallenges[c].expiresAt < now)
       /\ \A c \in 1..Len(authCodes) :
            Count(<<"consumed", c>>)' > Count(<<"consumed", c>>)
                => ~(authCodes[c].expiresAt < now)
       /\ \A c \in 1..Len(mfaChallenges) :
            Count(<<"approved", c>>)' > Count(<<"approved", c>>)
                => ~(mfaChallenges[c].expiresAt < now)
      ]_vars

\* C22: a step never removes a session record and never changes the principal,
\* fingerprint, credential method or risk score (or any other field but the
\* active flag) of a record that exists; the active flag of a record never
\* goes from false to true; and a refresh that presents the refresh token of
\* an active, unexpired session adds a new session record.
C22_SessionRecordsAreImmutable ==
    [][/\ Len(authSessions') >= Len(authSessions)
       /\ \A i \in 1..Len(authSessions) :
             /\ [authSessions'[i] EXCEPT !.isActive = TRUE]
                   = [authSessions[i] EXCEPT !.isActive = TRUE]
             /\ authSessions'[i].isActive => authSessions[i].isActive
       /\ (out'.op = "refresh" /\ out'.valid /\ out' # out) =>
             Len(authSessions') = Len(authSessions) + 1
      ]_vars

\* C23: when a logout is answered 200 for a request the guard authenticated
\* with the token T, the session T names is inactive after the step, the guard
\* refuses T on the store the step leaves, and every other session has the
\* active flag it had; every later request that carries a token of that
\* session is answered 401 by the guard, a second logout included.
C23_LogoutEndsTheTokensSession ==
    [][/\ (out'.op = "logout" /\ out'.status = 200) =>
             /\ Len(authSessions') = Len(authSessions)
             /\ \A i \in 1..Len(authSessions) :
                   IF authSessions[i].id = out'.token.sessionId
                   THEN authSessions[i].isActive /\ ~authSessions'[i].isActive
                   ELSE authSessions'[i].isActive = authSessions[i].isActive
             /\ \E i \in 1..Len(authSessions) :
                   authSessions[i].id = out'.token.sessionId
             /\ authenticateToken(authSessions', out'.token, now') # "next"
       /\ (out'.op \in {"guard", "logout"}
              /\ Count(<<"logout", out'.token.sessionId>>) >= 1) =>
             /\ out'.status = 401
             /\ ~out'.handlerRan
             /\ authSessions' = authSessions
      ]_vars

\* a logout has just been answered 200: the session its token names is
\* inactive, and the other session of the same principal is active still
C23_Witness ==
    /\ out.op = "logout"
    /\ out.status = 200
    /\ Len(authSessions) = 2
    /\ authSessions[1].userId = authSessions[2].userId
    /\ \E i, j \in 1..2 :
          /\ authSessions[i].id = out.token.sessionId
          /\ ~authSessions[i].isActive
          /\ authSessions[j].isActive
    /\ Count(<<"logout", out.token.sessionId>>) = 1

\* C24: a logout-all request that carries the access token of an active,
\* unexpired session of the principal P is answered 200 and leaves no session
\* of P that existed when it arrived active, and it leaves the sessions of
\* every other principal as they were.
C24_LogoutAllEndsThePrincipalsSessions ==
    [][\A i \in 1..Len(authSessions) :
          (/\ out'.op = "logout-all"
           /\ out'.token = authSessions[i].sessionToken
           /\ verifyAccessToken(out'.token, now)
           /\ authSessions[i].isActive
           /\ ~(authSessions[i].expiresAt < now))
              => /\ out'.status = 200
                 /\ \A j \in 1..Len(authSessions) :
                       IF authSessions[j].userId = authSessions[i].userId
                       THEN ~authSessions'[j].isActive
                       ELSE authSessions'[j] = authSessions[j]
      ]_vars

\* C25: an approval token is accepted only if its MAC is the service's over
\* its payload, its timestamp is at most five minutes old, and the challenge
\* code, the principal and the device fingerprint in it are those of the
\* approving request.
C25_ApprovalTokenBoundToRequest ==
    (out.op = "verify-approval" /\ out.result.valid) =>
        /\ req.approvalToken.signature = generateHMAC(req.approvalToken.payload)
        /\ now - req.approvalToken.payload.timestamp <= ApprovalTokenTTL
        /\ req.approvalToken.payload.challengeCode = req.challengeCode
        /\ req.approvalToken.payload.userId = req.userId
        /\ req.approvalToken.payload.deviceFingerprint = req.deviceFingerprint

\* C26: a login that is refused because the email belongs to no principal,
\* and one that is refused because the principal exists and the password is
\* wrong, are answered alike: status 401 and the one generic body, error
\* 'Invalid credentials' and code INVALID_CREDENTIALS.
C26_FailedLoginAnswersAlike ==
    (out.op = "login" /\ out.status # 200
        /\ out.cause \in {"email", "password"}) =>
        /\ out.status = 401
        /\ out.error = "Invalid credentials"
        /\ out.code = "INVALID_CREDENTIALS"

\* a login with an unknown email has just been refused, after a login of an
\* existing principal with a wrong password was refused (and logged)
C26_Witness ==
    /\ out.op = "login"
    /\ out.status = 401
    /\ out.cause = "email"
    /\ \E k \in 1..Len(securityLogs) :
          securityLogs[k].message = "Failed login attempt - invalid password"

\* C27: in every state, also one that a request stopped between two steps has
\* left, every challenge an assertion has verified for is marked used, and
\* there are no more sessions than assertions that have verified: each session
\* of this path was granted after its verification and after its challenge was
\* marked used.
C27_MarkUsedPrecedesGrant ==
    /\ \A c \in 1..Len(authChallenges) :
          Count(<<"verified", c>>) > 0 => authChallenges[c].isUsed
    /\ Len(authSessions) <= verifiedCount
    /\ \A i \in 1..Len(authSessions) : authSessions[i].authMethod = "webauthn"

\* one request has been granted its session; another has verified, has had its
\* challenge marked used and has stopped before the grant: it left no session
C27_Witness ==
    /\ Len(authSessions) = 1
    /\ verifiedCount = 2
    /\ \A w \in Workers : req[w] = Idle
    /\ \A c \in 1..Len(authChallenges) : authChallenges[c].isUsed
    /\ Len(authChallenges) = 2

\* C28: a step that answers a login with a block, that refuses an MFA
\* approval, or that changes the trust of a device appends an entry to the
\* security log.
C28_SecurityOutcomesAreLogged ==
    [][(\/ (out'.op \in {"login", "webauthn"} /\ out'.status = 403)
        \/ (out'.op = "approve" /\ out'.status # 200)
        \/ (out'.op = "trust" /\ out'.status = 200))
          => /\ Len(securityLogs') = Len(securityLogs) + 1
             /\ \A k \in 1..Len(securityLogs) : securityLogs'[k] = securityLogs[k]
      ]_vars

\* C29: the login count stored for a fingerprint is the number of logins
\* recorded from that device. Every login that succeeds calls recordDeviceLogin
\* once and creates one session bound to the fingerprint, so the logins
\* recorded from a device are the sessions that carry its fingerprint.
C29_LoginCountIsLoginsRecorded ==
    \A f \in Fingerprints :
        LET recorded == Cardinality({i \in 1..Len(authSessions) :
                                        authSessions[i].deviceFingerprint = f})
        IN  IF deviceFingerprints[f] = NoDevice
            THEN recorded = 0
            ELSE deviceFingerprints[f].loginCount = recorded

\* C30: a session is created only on a risk decision that does not block:
\* every session record, and the access token it was created with, carries a
\* risk score below 90, the score at which the engine recommends block; a
\* login answered 200 carries such a score and a recommendation other than
\* block; a login whose assessment recommends block is answered 403, returns
\* no tokens and leaves the sessions as they were.
C30_SessionsOnlyOnNonBlockingDecision ==
    [][/\ \A i \in 1..Len(authSessions') :
             /\ authSessions'[i].riskScore < 90
             /\ authSessions'[i].sessionToken.riskScore < 90
             /\ recommend(authSessions'[i].riskScore, authSessions'[i].authMethod) # "block"
       /\ (out'.op \in {"login", "webauthn"} /\ out'.status = 200) =>
             /\ out'.riskScore < 90
             /\ out'.accessToken.riskScore < 90
       /\ (out'.op = "webauthn" /\ out'.status = 200) => out'.recommendation # "block"
       /\ (out'.op = "webauthn" /\ "recommendation" \in DOMAIN out'
              /\ out'.recommendation = "block") =>
             /\ out'.status = 403
             /\ authSessions' = authSessions
       /\ (out'.op \in {"login", "webauthn"} /\ out'.status = 403) =>
             /\ "accessToken" \notin DOMAIN out'
             /\ "refreshToken" \notin DOMAIN out'
      ]_vars

\* a WebAuthn login whose assessment recommends block has just been refused
\* with 403 and no tokens, after an earlier login of the same credential,
\* assessed below 90, was granted its session: that session is the only one
C30_Witness ==
    /\ out.op = "webauthn"
    /\ out.status = 403
    /\ out.recommendation = "block"
    /\ out.riskScore >= 90
    /\ "accessToken" \notin DOMAIN out
    /\ Len(authSessions) = 1
    /\ authSessions[1].authMethod = "webauthn"
    /\ authSessions[1].riskScore < 90

-----------------------------------------------------------------------------
(* WebAuthnService: registration, and the two ceremonies side by side.  The
   registration routes call generateRegistrationOptions and verifyRegistration
   with the principal of the bearer token. *)

MaxCredentials == 2

\* MemStorage.createWebauthnCredential: a new record under a fresh record id;
\* counter: credential.counter || 0
createWebauthnCredential(credentials, userId, credentialId, counter) ==
    Append(credentials, [credentialId |-> credentialId, userId |-> userId,
                         counter |-> counter])

\* MemStorage.deleteWebauthnCredential: the first record with that
\* credential id leaves the map
deleteWebauthnCredential(credentials, credentialId) ==
    IF hasCredential(credentials, credentialId)
    THEN LET i == credentialIndex(credentials, credentialId)
         IN  SubSeq(credentials, 1, i - 1)
                \o SubSeq(credentials, i + 1, Len(credentials))
    ELSE credentials

\* what verifyRegistrationResponse does with an attestation: it answers
\* verified or not, or rejects
RegistrationAnswers == {"verified", "unverified", "throw"}

\* POST /webauthn/register/begin for the principal of the bearer token:
\* generateRegistrationOptions(userId, userEmail) stores the challenge of the
\* options with type 'webauthn_register' for a minute
RegBegin(userId) ==
    /\ Len(authChallenges) < MaxChallenges
    /\ UNCHANGED <<now, authSessions, deviceFingerprints, webauthnCredentials,
                   mfaChallenges, attempts, securityLogs, authCodes, req, hist,
                   users, pushTokens, vaultEntries>>
    /\ IF getUser(users, userId) = NoUser
       THEN /\ out' = [op |-> "register-begin", status |-> 404,
                       code |-> "USER_NOT_FOUND"]
            /\ UNCHANGED authChallenges
       ELSE /\ authChallenges' = createAuthChallenge(authChallenges,
                                     "webauthn_register", userId,
                                     now + ChallengeTTL)
            /\ out' = [op |-> "register-begin", status |-> 200,
                       challenge |-> Len(authChallenges) + 1]

\* POST /webauthn/register/complete for the principal of the bearer token, up
\* to the call of the library in verifyRegistration(userId, response): the
\* response is an attestation of credentialId made over the challenge value
\* in its clientDataJSON
RegStart(w, userId, challenge, credentialId) ==
    LET challengeRecord == getAuthChallenge(authChallenges, challenge, now)
    IN  /\ req[w] = Idle
        /\ Len(webauthnCredentials)
              + Cardinality({v \in Workers : req[v] # Idle /\ req[v].pc = "attest"})
                 < MaxCredentials
        /\ UNCHANGED <<now, authSessions, deviceFingerprints, authChallenges,
                       webauthnCredentials, mfaChallenges, attempts, securityLogs,
                       authCodes, hist,
                   users, pushTokens, vaultEntries>>
        /\ IF challengeRecord = NoChallenge \/ challengeRecord.userId # userId
           THEN /\ out' = [op |-> "register", verified |-> FALSE, status |-> 500,
                           code |-> "WEBAUTHN_REG_VERIFICATION_FAILED",
                           error |-> "Invalid challenge"]
                /\ UNCHANGED req
           ELSE /\ req' = [req EXCEPT ![w] =
                              [pc |-> "attest",
                               challenge |-> challenge,
                               credentialId |-> credentialId,
                               userId |-> userId]]
                /\ out' = NoOut

\* ... and from the answer of verifyRegistrationResponse on: the credential
\* is stored with the signature counter the library read from the
\* attestation, then the challenge marked used, and the route appends its
\* entry.  verification is the library's verdict on the attestation.
RegFinish(w, verification, counter) ==
    LET r == req[w]
    IN  /\ req[w] # Idle
        /\ req[w].pc = "attest"
        /\ req' = [req EXCEPT ![w] = Idle]
        /\ UNCHANGED <<now, authSessions, deviceFingerprints, mfaChallenges,
                       attempts, authCodes,
                       users, pushTokens, vaultEntries>>
        /\ IF verification = "verified"
           THEN /\ Len(securityLogs) < MaxLogs
                /\ webauthnCredentials' =
                       createWebauthnCredential(webauthnCredentials, r.userId,
                                                r.credentialId, counter)
                /\ authChallenges' = markChallengeUsed(authChallenges, r.challenge)
                /\ securityLogs' = createSecurityLog(securityLogs, r.userId,
                                       "WebAuthn credential registered successfully")
                /\ hist' = Recorded(<<"registered", r.challenge>>)
                /\ out' = [op |-> "register", verified |-> TRUE, status |-> 200,
                           userId |-> r.userId, credentialId |-> r.credentialId,
                           challenge |-> r.challenge]
           ELSE /\ out' = IF verification = "throw"
                          THEN [op |-> "register", verified |-> FALSE,
                                status |-> 500,
                                code |-> "WEBAUTHN_REG_VERIFICATION_FAILED",
                                error |-> Null]
                          ELSE [op |-> "register", verified |-> FALSE,
                                status |-> 400,
                                code |-> "WEBAUTHN_VERIFICATION_FAILED",
                                error |-> Null]
                /\ UNCHANGED <<authChallenges, webauthnCredentials,
                               securityLogs, hist>>

\* DELETE /webauthn/credentials/:credentialId for the principal of the bearer
\* token: WebAuthnService.deleteCredential refuses a credential that is
\* missing or another principal's
DeleteCredential(userId, credentialId) ==
    LET credential == getWebauthnCredentialByCredentialId(webauthnCredentials,
                                                          credentialId)
    IN  /\ UNCHANGED <<now, authSessions, deviceFingerprints, authChallenges,
                       mfaChallenges, attempts, authCodes, req, hist,
                       users, pushTokens, vaultEntries>>
        /\ IF credential = NoCredential \/ credential.userId # userId
           THEN /\ out' = [op |-> "credential-delete", status |-> 404,
                           code |-> "CREDENTIAL_NOT_FOUND", userId |-> userId,
                           credentialId |-> credentialId]
                /\ UNCHANGED <<webauthnCredentials, securityLogs>>
           ELSE /\ Len(securityLogs) < MaxLogs
                /\ webauthnCredentials' =
                       deleteWebauthnCredential(webauthnCredentials, credentialId)
                /\ securityLogs' = createSecurityLog(securityLogs, userId,
                                       "WebAuthn credential deleted: " \o credentialId)
                /\ out' = [op |-> "credential-delete", status |-> 200,
                           code |-> Null, userId |-> userId,
                           credentialId |-> credentialId]

\* A and B have registered their accounts; no credential is registered yet,
\* no challenge issued: every credential and every challenge of this
\* specification is the work of the routes below
InitCeremony ==
    /\ now = 0
    /\ authSessions = <<>>
    /\ deviceFingerprints = [f \in Fingerprints |-> NoDevice]
    /\ authChallenges = <<>>
    /\ webauthnCredentials = <<>>
    /\ mfaChallenges = <<>>
    /\ attempts = <<>>
    /\ securityLogs = RegisteredLogs
    /\ users = RegisteredUsers
    /\ pushTokens = NoPushTokens
    /\ vaultEntries = <<>>
    /\ authCodes = <<>>
    /\ req = [w \in Workers |-> Idle]
    /\ out = NoOut
    /\ hist = <<>>

\* the clock moves once: a challenge issued before lives to that minute
CeremonyAdvance == now < ChallengeTTL /\ Advance(ChallengeTTL)

NextCeremony ==
    \/ \E userId \in Users : RegBegin(userId)
    \/ \E userId \in {"A", Undefined} : AuthBegin(userId)
    \/ \E w \in Workers, userId \in Users, challenge \in 1..MaxChallenges,
          credentialId \in CredentialIds :
            RegStart(w, userId, challenge, credentialId)
    \/ \E w \in Workers, verification \in RegistrationAnswers,
          counter \in {0, MaxCounter} :
            RegFinish(w, verification, counter)
    \/ \E userId \in Users, credentialId \in CredentialIds :
            DeleteCredential(userId, credentialId)
    \/ \E w \in Workers, challenge \in 1..MaxChallenges,
          credentialId \in CredentialIds, counter \in {MaxCounter},
          d \in WebDevices :
            AuthStart(w, Undefined, challenge, credentialId, counter, d)
    \/ \E w \in Workers, signatureOk \in BOOLEAN : AuthFinish(w, signatureOk)
    \/ \E w \in Workers : AuthCancel(w)
    \/ CeremonyAdvance

SpecCeremony == InitCeremony /\ [][NextCeremony]_vars

-----------------------------------------------------------------------------
(* middleware/rateLimiter: the limiters of two endpoints.  Every closure
   createRateLimiter returns reads and writes the one static map attempts,
   under the key getClientKey gives the request. *)

MaxSharedCount == 5

\* POST /register is limited under tokenRegistration, POST /mfa/challenge
\* under mfaChallenge
LimitedEndpoints == {"tokenRegistration", "mfaChallenge"}

\* hist keeps, for each configuration and key, the entry the closure would
\* hold had it been called for the requests of that configuration alone
InitSharedRate ==
    /\ now = 0
    /\ authSessions = <<>>
    /\ deviceFingerprints = [f \in Fingerprints |-> NoDevice]
    /\ authChallenges = <<>>
    /\ webauthnCredentials = <<>>
    /\ mfaChallenges = <<>>
    /\ authCodes = <<>>
    /\ attempts = [k \in ClientKeys |-> NoEntry]
    /\ securityLogs = RegisteredLogs
    /\ users = RegisteredUsers
    /\ pushTokens = NoPushTokens
    /\ vaultEntries = <<>>
    /\ req = <<>>
    /\ out = NoOut
    /\ hist = [c \in LimitedEndpoints |-> [k \in ClientKeys |-> NoEntry]]

\* one request of the client key to the endpoint limited under configKey;
\* alone is the answer of the same closure on the requests of its own
\* configuration
SharedRateLimit(configKey, key) ==
    LET config == RateLimitConfigs[configKey]
        answer == rateLimit(attempts[key], config, now)
        alone == rateLimit(hist[configKey][key], config, now)
    IN  /\ attempts[key].count < MaxSharedCount
        /\ attempts' = [attempts EXCEPT ![key] = answer.entry]
        /\ hist' = [hist EXCEPT ![configKey][key] = alone.entry]
        /\ out' = [op |-> "limit", config |-> configKey, key |-> key,
                   status |-> answer.status, alone |-> alone.status]
        /\ UNCHANGED <<now, authSessions, deviceFingerprints, authChallenges,
                       webauthnCredentials, mfaChallenges, authCodes,
                       securityLogs, req,
                   users, pushTokens, vaultEntries>>

SharedRateAdvance ==
    /\ now < RateHorizon
    /\ now' = now + 1
    /\ out' = NoOut
    /\ UNCHANGED <<authSessions, deviceFingerprints, authChallenges,
                   webauthnCredentials, mfaChallenges, authCodes, attempts,
                   securityLogs, req, hist,
                   users, pushTokens, vaultEntries>>

NextSharedRate ==
    \/ \E configKey \in LimitedEndpoints, key \in ClientKeys :
          SharedRateLimit(configKey, key)
    \/ SharedRateAdvance

SpecSharedRate == InitSharedRate /\ [][NextSharedRate]_vars

-----------------------------------------------------------------------------
(* DeviceFingerprintService.trustDevice, called for a principal and a
   fingerprint, among the logins recorded from the devices *)

\* what trustDevice returns: true unless the record is missing or another's
trustDeviceReturns(devs, userId, fingerprint) ==
    devs[fingerprint] # NoDevice /\ devs[fingerprint].userId = userId

\* hist is the set of fingerprints trustDevice has returned true for
InitTrust ==
    /\ now = 0
    /\ authSessions = <<>>
    /\ deviceFingerprints = [f \in Fingerprints |-> NoDevice]
    /\ authChallenges = <<>>
    /\ webauthnCredentials = <<>>
    /\ mfaChallenges = <<>>
    /\ attempts = <<>>
    /\ securityLogs = RegisteredLogs
    /\ users = RegisteredUsers
    /\ pushTokens = NoPushTokens
    /\ vaultEntries = <<>>
    /\ authCodes = <<>>
    /\ req = <<>>
    /\ out = NoOut
    /\ hist = {}

\* recordDeviceLogin(deviceData, userId), as the login handlers call it
TrustRecordLogin(userId, d) ==
    /\ deviceFingerprints[d.fingerprint].loginCount < MaxLoginCount
    /\ deviceFingerprints' = recordDeviceLogin(deviceFingerprints, d, userId)
    /\ out' = [op |-> "recordDeviceLogin", userId |-> userId,
               fingerprint |-> d.fingerprint]
    /\ UNCHANGED <<now, authSessions, authChallenges, webauthnCredentials,
                   mfaChallenges, attempts, securityLogs, authCodes, req, hist,
                   users, pushTokens, vaultEntries>>

\* trustDevice(userId, fingerprint); before is the record the call found
TrustDeviceCall(userId, fingerprint) ==
    /\ deviceFingerprints[fingerprint].loginCount < MaxLoginCount
    /\ deviceFingerprints' = trustDevice(deviceFingerprints, userId, fingerprint)
    /\ hist' = IF trustDeviceReturns(deviceFingerprints, userId, fingerprint)
               THEN hist \cup {fingerprint} ELSE hist
    /\ out' = [op |-> "trustDevice", userId |-> userId,
               fingerprint |-> fingerprint,
               before |-> deviceFingerprints[fingerprint],
               result |-> trustDeviceReturns(deviceFingerprints, userId,
                                             fingerprint)]
    /\ UNCHANGED <<now, authSessions, authChallenges, webauthnCredentials,
                   mfaChallenges, attempts, securityLogs, authCodes, req,
                   users, pushTokens, vaultEntries>>

NextTrust ==
    \/ \E userId \in Users, d \in Devices : TrustRecordLogin(userId, d)
    \/ \E userId \in Users, fingerprint \in Fingerprints :
          TrustDeviceCall(userId, fingerprint)

SpecTrust == InitTrust /\ [][NextTrust]_vars

-----------------------------------------------------------------------------
(* Claims on the guard, the ceremonies, the token endpoint, the limiter and
   the device records *)

\* C31: the guard accepts an access token a login returned for as long as the
\* session that login created is active and unexpired: a request to a
\* protected route that carries the token of such a session, and whose token
\* verifies, is let through to the handler.
C31_GuardAcceptsIssuedTokens ==
    \A i \in 1..Len(authSessions) :
        (/\ out.op = "guard"
         /\ out.token = authSessions[i].sessionToken
         /\ verifyAccessToken(out.token, now)
         /\ authSessions[i].isActive
         /\ ~(authSessions[i].expiresAt < now))
            => /\ out.status = 200
               /\ out.handlerRan
               /\ getAuthSessionBySessionId(authSessions, out.token.sessionId)
                     = authSessions[i]

\* C32: in a WebAuthn login from a fingerprint that has no stored record when
\* the login is handled, the device factor of the assessment is the score of
\* an unknown device: 60 adjusted for address, browser and platform, which is
\* what analyzeRisk gives on the store as the request found it, and never
\* less than the 60 of an unknown device for a device with a named browser
\* on a trusted platform.
C32_UnknownDeviceScoredAsUnknown ==
    [][\A d \in WebDevices :
          (/\ out'.op = "webauthn"
           /\ deviceFingerprints[d.fingerprint] = NoDevice
           /\ deviceFingerprints'[d.fingerprint] # NoDevice)
              => /\ out'.deviceRisk
                       = analyzeRisk(deviceFingerprints, d, out'.userId)
                 /\ (~suspiciousBrowser(d.browser) /\ trustedPlatform(d.platform))
                       => out'.deviceRisk >= 60
      ]_vars

\* the owner of a stored credential
credentialOwner(credentialId) ==
    getWebauthnCredentialByCredentialId(webauthnCredentials, credentialId).userId

\* C33: a session this path creates belongs to the owner of the credential
\* whose assertion verified: a request goes on to the verification, and to the
\* grant, only for the owner of the credential it presents and only if it
\* names that owner or nobody, and the answer, the token and the session
\* record of a grant carry that owner. A completion that names a userId other
\* than the owner of the credential it presents is answered with an error and
\* leaves the request table, the sessions, the counters and the challenges as
\* they were.
C33_SessionForTheCredentialsOwner ==
    [][/\ \A w \in Workers :
             req'[w] # Idle =>
                /\ req'[w].userId = credentialOwner(req'[w].credentialId)
                /\ req'[w].pc = "verify" =>
                       req'[w].named \in {Undefined, req'[w].userId}
       /\ (out'.op = "webauthn" /\ out'.status = 200) =>
              /\ out'.userId = credentialOwner(out'.credentialId)
              /\ out'.accessToken.userId = out'.userId
              /\ \E i \in 1..Len(authSessions') :
                    /\ authSessions'[i].sessionToken = out'.accessToken
                    /\ authSessions'[i].userId = out'.userId
       /\ \A i \in 1..Len(authSessions') :
              authSessions'[i].userId = authSessions'[i].sessionToken.userId
       /\ (/\ out' # out
           /\ out'.op = "webauthn"
           /\ "named" \in DOMAIN out'
           /\ out'.named \in Users
           /\ hasCredential(webauthnCredentials, out'.credentialId)
           /\ credentialOwner(out'.credentialId) # out'.named)
              => /\ out'.status = 500
                 /\ req' = req
                 /\ authSessions' = authSessions
                 /\ webauthnCredentials' = webauthnCredentials
                 /\ authChallenges' = authChallenges
      ]_vars

\* B's credential has been presented in a request that names A, while every
\* challenge issued can still be used: the request was refused, and the
\* counters and the challenges are as they were; A holds a session from an
\* earlier login with A's own credential
C33_Witness ==
    /\ out.op = "webauthn"
    /\ out.status = 500
    /\ "named" \in DOMAIN out
    /\ out.named = "A"
    /\ out.credentialId = "k2"
    /\ Len(authChallenges) = MaxChallenges
    /\ \E c \in 1..Len(authChallenges) :
          getAuthChallenge(authChallenges, c, now) # NoChallenge
    /\ \A w \in Workers : req[w] = Idle
    /\ Len(authSessions) = 1
    /\ authSessions[1].userId = "A"

\* C34: a challenge completes only the ceremony it was issued for: a
\* challenge an assertion has verified for has type webauthn_auth, and a
\* challenge a credential was registered with has type webauthn_register.
C34_ChallengeCompletesItsOwnCeremony ==
    \A c \in 1..Len(authChallenges) :
        /\ Count(<<"verified", c>>) > 0 => authChallenges[c].type = "webauthn_auth"
        /\ Count(<<"registered", c>>) > 0 =>
              authChallenges[c].type = "webauthn_register"

\* C36: no two stored WebAuthn credentials have the same credential id,
\* whatever the order and interleaving of the registration completions.
C36_CredentialIdsAreUnique ==
    \A i, j \in 1..Len(webauthnCredentials) :
        i # j => webauthnCredentials[i].credentialId
                    # webauthnCredentials[j].credentialId

\* C35: POST /token removes the code when it consumes it, before it compares
\* the client and the redirect URI and before the PKCE check: a code that a
\* call of an authenticated client was refused for after consuming it is gone
\* from the store, no request is in flight for it, no tokens were or are
\* issued for it, and every later call that carries it, whatever its other
\* values, is answered 400 invalid_grant.
C35_RejectedCodeIsSpent ==
    \A code \in 1..MaxCodes :
        Count(<<"rejected", code>>) >= 1 =>
            /\ code \in 1..Len(authCodes)
            /\ authCodes[code] = NoCode
            /\ Count(<<"consumed", code>>) = 1
            /\ Count(<<"tokens", code>>) = 0
            /\ \A w \in Workers : req[w] # Idle => req[w].code # code
            /\ ~(out.op = "token-accepted" /\ out.code = code)
            /\ (out.op = "token" /\ out.code = code
                   /\ out.error \notin {"unsupported_grant_type", "invalid_request",
                                        "invalid_client"})
                  => (out.status = 400 /\ out.error = "invalid_grant")

\* a code was refused after it was consumed, and a later call of an
\* authenticated client that carries it has just been answered invalid_grant,
\* as the replay of a consumed code
C35_Witness ==
    /\ out.op = "token"
    /\ out.status = 400
    /\ out.error = "invalid_grant"
    /\ out.replay
    /\ Count(<<"rejected", out.code>>) = 1
    /\ Count(<<"tokens", out.code>>) = 0

\* C37: under the mfaChallenge configuration a key that has used its
\* maxAttempts attempts has every further attempt rejected until
\* blockDuration has passed since its last counted attempt, and the
\* retryAfter of the rejection is the rest of that time.
C37_BlockedForTheBlockDuration ==
    (/\ out.op = "rate"
     /\ req = RateLimitConfigs.mfaChallenge
     /\ out.before # NoEntry
     /\ out.before.count >= req.maxAttempts
     /\ now - out.before.lastAttempt < req.blockDuration) =>
        /\ out.status = 429
        /\ out.retryAfter =
              (req.blockDuration - (now - out.before.lastAttempt)) * SecondsPerMinute

\* C38: the counters are separate per configuration: the answer to a request
\* (admitted or 429) is the answer the limiter gives on the earlier requests
\* of the same key to endpoints of the same configuration alone, whatever
\* requests the key made to endpoints of another configuration.
C38_CountersSeparatePerConfiguration ==
    out.op = "limit" => out.status = out.alone

\* C39: a fingerprint record is never deleted, and a login recorded for a
\* fingerprint that has a record leaves the record's owning principal, stored
\* risk score, trust flag and first-seen time as they were: a device first
\* bound to one principal is never bound to another. (Every step but a trust
\* request that its handler served is held to this.)
C39_RecordedLoginKeepsTheRecord ==
    [][\A f \in Fingerprints :
          deviceFingerprints[f] # NoDevice =>
             /\ deviceFingerprints'[f] # NoDevice
             /\ deviceFingerprints'[f].userId = deviceFingerprints[f].userId
             /\ deviceFingerprints'[f].firstSeen = deviceFingerprints[f].firstSeen
             /\ deviceFingerprints'[f].isTrusted = deviceFingerprints[f].isTrusted
             /\ ~(out'.op = "trust" /\ out'.handlerRan) =>
                    deviceFingerprints'[f].riskScore = deviceFingerprints[f].riskScore
      ]_vars

\* B has just logged in from the device that A's login bound to A a week
\* before: the login was recorded (the count went up), and the record is A's
\* still, with the score and the first-seen time it was created with
C39_Witness ==
    /\ out.op = "login"
    /\ out.status = 200
    /\ out.userId = "B"
    /\ out.accessToken.deviceFingerprint = "f2"
    /\ deviceFingerprints["f2"] # NoDevice
    /\ deviceFingerprints["f2"].userId = "A"
    /\ deviceFingerprints["f2"].loginCount = 1
    /\ deviceFingerprints["f2"].firstSeen < now
    /\ ~deviceFingerprints["f2"].isTrusted
    /\ deviceFingerprints["f2"].riskScore
          = analyzeRisk([f \in Fingerprints |-> NoDevice], DeviceOf("f2"), "A")

\* C40: trustDevice(u, f) returns true only when f has a record owned by u;
\* once it has returned true for f, the stored record of f, which is what
\* every later read returns, has the trust flag set and a risk score of at
\* most 10; a call that returns false leaves the record as it found it.
C40_TrustedDeviceReadsAsTrusted ==
    /\ out.op = "trustDevice" =>
          /\ out.result =>
                (out.before # NoDevice /\ out.before.userId = out.userId)
          /\ ~out.result =>
                getDeviceFingerprint(deviceFingerprints, out.fingerprint) = out.before
    /\ \A f \in hist :
          /\ getDeviceFingerprint(deviceFingerprints, f).riskScore <= 10
          /\ getDeviceFingerprint(deviceFingerprints, f).isTrusted

====
